---- MODULE Spec2Model ----
(***************************************************************************)
(* DIA-Core execution core: risk validator, position sizer, order executor *)
(* and exchange protocol client, modelled from src/src/dia_core.           *)
(*                                                                         *)
(* Units.  Percentages (exposure, daily loss, drawdown and their limits)   *)
(* are integers counting hundredths of a percent: 5000 is 50.00%.          *)
(* Exceptions are values: an operator that models a function which may     *)
(* raise returns a record with a field exc, "none" when it returns.        *)
(***************************************************************************)
EXTENDS Integers, Sequences, FiniteSets, TLC

VARIABLES
    ex,             \* the Executor object (self): mode, limits, client, ...
    submits,        \* number of Executor.submit calls made so far
    addOrderCalls,  \* number of client.add_order calls made so far
    httpRequests,   \* number of HTTP requests sent by the client so far
    prompts,        \* number of interactive confirmation prompts shown
    accepted,       \* number of SubmittedOrder records returned 'accepted'
    rejected,       \* number of SubmittedOrder records returned 'rejected'
    last,           \* the last Executor.submit call: inputs and outcome
    resub,          \* an intent submitted again and again, and what came back
    vcall,          \* the last validate_order call: inputs and outcome
    scall,          \* the last compute_position_size call
    rcall,          \* the last KrakenClient._request call
    kc,             \* a KrakenClient object on which add_order is called
    clock,          \* time.time() in milliseconds, from the client's creation
    alog,           \* the add_order calls made on kc so far, in order
    cfg,            \* the SchedulerConfig of the run_batch call
    symbols,        \* the symbols of the run_batch call
    psutil,         \* FALSE when the scheduler module's psutil is None
    jobs,           \* jobs[i]: the _run_one call for symbols[i]
    finished,       \* the indices of the jobs that ended, in the order they did
    batch,          \* the run_batch call itself (the calling thread)
    ss,             \* a SharedState object that threads share
    thr,            \* thr[t]: the SharedState method call of thread t
    writes,         \* the writes of ss.exposure_by_symbol so far, in order
    ncalls,         \* number of SharedState method calls begun so far
    pcall,          \* the last propose_order call
    og,             \* an OverloadGuard, its caller's pair lists, its last tick
    notif           \* the notification step of an orchestration worker

vars == <<ex, submits, addOrderCalls, httpRequests, prompts, accepted,
          rejected, last, resub, vcall, scall, rcall, kc, clock, alog,
          cfg, symbols, psutil, jobs, finished, batch,
          ss, thr, writes, ncalls, pcall, og, notif>>

(***************************************************************************)
(* Bounds of the model.                                                    *)
(***************************************************************************)
\* Executor.submit calls explored in one behaviour.
MaxSubmits == 2

(***************************************************************************)
(* config/models.py: RiskLimits                                            *)
(***************************************************************************)
\* RiskLimits() defaults, in hundredths of a percent (orders: a count).
max_daily_loss_pct == 200
max_drawdown_pct == 1500
max_exposure_pct == 5000
max_orders_per_min == 30

RiskLimits(dl, dd, xp, opm) ==
    [max_daily_loss_pct |-> dl, max_drawdown_pct |-> dd,
     max_exposure_pct |-> xp, max_orders_per_min |-> opm]

DefaultLimits ==
    RiskLimits(max_daily_loss_pct, max_drawdown_pct, max_exposure_pct,
               max_orders_per_min)

\* The limits the model runs with: the defaults, and the tighter set of
\* tests/test_risk_manager.py (daily loss 5%, drawdown 10%, 10 orders/min).
LimitsSet == {DefaultLimits, RiskLimits(500, 1000, 5000, 10)}

(***************************************************************************)
(* risk/validator.py                                                       *)
(***************************************************************************)
RiskCheckParams(cur, proj, dl, dd, olm) ==
    [current_exposure_pct |-> cur, projected_exposure_pct |-> proj,
     daily_loss_pct |-> dl, drawdown_pct |-> dd, orders_last_min |-> olm]

\* Measured values the model draws from: below, at and above each limit of
\* LimitsSet.
ExposureVals == {0, 4900, 5000, 5001, 5500}
CurrentVals == {0, 4900, 6000}
DailyLossVals == {0, 200, 201, 500, 501}
DrawdownVals == {0, 1000, 1001, 1500, 1600}
OrdersVals == {0, 10, 11, 30, 31}

MetricsSet ==
    { RiskCheckParams(cur, proj, dl, dd, olm) :
        cur \in CurrentVals, proj \in ExposureVals, dl \in DailyLossVals,
        dd \in DrawdownVals, olm \in OrdersVals }

\* f"{x:.2f}" of a percentage: the integer part and the two decimals.
Fmt2(x) == <<x \div 100, x % 100>>

\* f"{n}" of an integer count: its digits, no decimals.
FmtInt(n) == <<n>>

\* RiskLimitExceededError(f"{metric} {value} > {limit}")
RiskLimitExceededError(metric, value, limit) ==
    [ok |-> FALSE, exc |-> "RiskLimitExceededError",
     msg |-> [metric |-> metric, value |-> value, limit |-> limit]]

NoMsg == [metric |-> "", value |-> <<>>, limit |-> <<>>]

Passed == [ok |-> TRUE, exc |-> "none", msg |-> NoMsg]

\* Mutant: the exposure check rejects a projected exposure equal to the limit.
validate_order_at_limit(limits, params) ==
    IF params.projected_exposure_pct >= limits.max_exposure_pct
    THEN RiskLimitExceededError("max_exposure_pct",
                                Fmt2(params.projected_exposure_pct),
                                Fmt2(limits.max_exposure_pct))
    ELSE IF params.daily_loss_pct > limits.max_daily_loss_pct
    THEN RiskLimitExceededError("max_daily_loss_pct",
                                Fmt2(params.daily_loss_pct),
                                Fmt2(limits.max_daily_loss_pct))
    ELSE IF params.drawdown_pct > limits.max_drawdown_pct
    THEN RiskLimitExceededError("max_drawdown_pct",
                                Fmt2(params.drawdown_pct),
                                Fmt2(limits.max_drawdown_pct))
    ELSE IF params.orders_last_min > limits.max_orders_per_min
    THEN RiskLimitExceededError("max_orders_per_min",
                                FmtInt(params.orders_last_min),
                                FmtInt(limits.max_orders_per_min))
    ELSE Passed

\* Mutant: the drawdown check comes before the daily-loss check.
validate_order_drawdown_first(limits, params) ==
    IF params.projected_exposure_pct > limits.max_exposure_pct
    THEN RiskLimitExceededError("max_exposure_pct",
                                Fmt2(params.projected_exposure_pct),
                                Fmt2(limits.max_exposure_pct))
    ELSE IF params.drawdown_pct > limits.max_drawdown_pct
    THEN RiskLimitExceededError("max_drawdown_pct",
                                Fmt2(params.drawdown_pct),
                                Fmt2(limits.max_drawdown_pct))
    ELSE IF params.daily_loss_pct > limits.max_daily_loss_pct
    THEN RiskLimitExceededError("max_daily_loss_pct",
                                Fmt2(params.daily_loss_pct),
                                Fmt2(limits.max_daily_loss_pct))
    ELSE IF params.orders_last_min > limits.max_orders_per_min
    THEN RiskLimitExceededError("max_orders_per_min",
                                FmtInt(params.orders_last_min),
                                FmtInt(limits.max_orders_per_min))
    ELSE Passed

validate_order(limits, params) ==
    IF params.projected_exposure_pct > limits.max_exposure_pct
    THEN RiskLimitExceededError("max_exposure_pct",
                                Fmt2(params.projected_exposure_pct),
                                Fmt2(limits.max_exposure_pct))
    ELSE IF params.daily_loss_pct > limits.max_daily_loss_pct
    THEN RiskLimitExceededError("max_daily_loss_pct",
                                Fmt2(params.daily_loss_pct),
                                Fmt2(limits.max_daily_loss_pct))
    ELSE IF params.drawdown_pct > limits.max_drawdown_pct
    THEN RiskLimitExceededError("max_drawdown_pct",
                                Fmt2(params.drawdown_pct),
                                Fmt2(limits.max_drawdown_pct))
    ELSE IF params.orders_last_min > limits.max_orders_per_min
    THEN RiskLimitExceededError("max_orders_per_min",
                                FmtInt(params.orders_last_min),
                                FmtInt(limits.max_orders_per_min))
    ELSE Passed

(***************************************************************************)
(* risk/sizing.py                                                          *)
(*                                                                         *)
(* Quantities (min_qty, the result) are integers counting units of         *)
(* 10^-QtyDigits; equity, price, ATR, k_atr and min_notional are whole     *)
(* numbers; risk_per_trade_pct counts tenths of a percent (5 is 0.5%).     *)
(* Intermediate values are exact fractions <<numerator, denominator>>.     *)
(***************************************************************************)
\* Decimal digits of the quantity grid.
QtyDigits == 3

RECURSIVE Pow10(_)
Pow10(n) == IF n = 0 THEN 1 ELSE 10 * Pow10(n - 1)

SizingParams(equity, price, atr, risk_per_trade_pct, k_atr, min_qty, mn, qty_decimals) ==
    [equity |-> equity, price |-> price, atr |-> atr,
     risk_per_trade_pct |-> risk_per_trade_pct, k_atr |-> k_atr,
     min_qty |-> min_qty, min_notional |-> mn, qty_decimals |-> qty_decimals]

\* A returned quantity: qty units of 10^-QtyDigits, plus 1e-12 when small.
Qty(qty, small) == [exc |-> "none", qty |-> qty, small |-> small]

ZeroDivisionError == [exc |-> "ZeroDivisionError", qty |-> 0, small |-> FALSE]

\* round(): the integer nearest to a / b (b > 0), ties to the even one.
RoundHalfEven(a, b) ==
    LET q == a \div b
        r == a % b
    IN  IF 2 * r < b THEN q
        ELSE IF 2 * r > b THEN q + 1
        ELSE IF q % 2 = 0 THEN q ELSE q + 1

\* round(x, ndigits) of the fraction x = <<a, b>>, in units of 10^-QtyDigits.
round(x, ndigits) ==
    RoundHalfEven(x[1] * Pow10(ndigits), x[2]) * Pow10(QtyDigits - ndigits)

\* max(raw_qty, min_qty) as a fraction; min_qty is in units of 10^-QtyDigits.
MaxQty(raw, min_qty) ==
    IF min_qty * raw[2] > raw[1] * Pow10(QtyDigits)
    THEN <<min_qty, Pow10(QtyDigits)>> ELSE raw

\* raw_qty = risk_amount / (k_atr * atr), with
\* risk_amount = equity * (risk_per_trade_pct / 100).
RawQty(params) ==
    <<params.equity * params.risk_per_trade_pct, 1000 * params.k_atr * params.atr>>

compute_position_size(params) ==
    IF params.price <= 0 \/ params.atr <= 0 \/ params.equity <= 0
    THEN Qty(0, FALSE)
    ELSE IF params.k_atr * params.atr = 0 THEN ZeroDivisionError
    ELSE LET raw_qty == RawQty(params)
             qty == round(MaxQty(raw_qty, params.min_qty), params.qty_decimals)
         IN  IF qty * params.price < params.min_notional * Pow10(QtyDigits)
             THEN Qty(0, FALSE)
             ELSE IF qty > 0 THEN Qty(qty, FALSE) ELSE Qty(0, TRUE)

(***************************************************************************)
(* kraken/types.py: OrderIntent                                            *)
(***************************************************************************)
MetricNames ==
    {"current_exposure_pct", "projected_exposure_pct", "daily_loss_pct",
     "drawdown_pct", "orders_last_min"}

\* An order intent.  The six declared fields of OrderIntent, plus the
\* attributes an object passed as intent carries beyond them: extra is the
\* set of their names, extra_values their values.  An OrderIntent proper
\* declares none of the metric fields, so its extra is empty; a subclass
\* that declares them carries all five.
OrderIntent(side, type, qty, limit_price, extra, values) ==
    [symbol |-> "BTC/EUR", side |-> side, type |-> type, qty |-> qty,
     limit_price |-> limit_price, time_in_force |-> "GTC",
     extra |-> extra, extra_values |-> values]

\* limit_price None is 0 here (both are falsy in `intent.limit_price`).
None == 0

ZeroMetrics == RiskCheckParams(0, 0, 0, 0, 0)

\* The intents a caller whose portfolio metrics are m can submit: a plain
\* OrderIntent, or an enriched one that carries m as attributes.  The
\* quantity is one unit, or the 0.0 that strategy/utils.py build_order_intent
\* leaves for the core to size.
IntentsOf(m) ==
    { OrderIntent(side, type, qty, lp, extra, IF extra = {} THEN ZeroMetrics ELSE m) :
        side \in {"buy", "sell"}, type \in {"market", "limit"}, qty \in {0, 1},
        lp \in {None, 100}, extra \in {{}, MetricNames} }

\* getattr(obj, name, default)
getattr(obj, name, default) ==
    IF name \in obj.extra THEN obj.extra_values[name] ELSE default

(***************************************************************************)
(* exec/pre_trade.py                                                       *)
(***************************************************************************)
\* The metrics are read off the intent, 0 where the intent has no such
\* attribute; _equity and _min_notional are not used.
pre_trade_checks(intent, limits, equity, min_notional) ==
    validate_order(limits,
        RiskCheckParams(getattr(intent, "current_exposure_pct", 0),
                        getattr(intent, "projected_exposure_pct", 0),
                        getattr(intent, "daily_loss_pct", 0),
                        getattr(intent, "drawdown_pct", 0),
                        getattr(intent, "orders_last_min", 0)))

(***************************************************************************)
(* kraken/client.py                                                        *)
(***************************************************************************)
HTTP_TOO_MANY_REQUESTS == 429
HTTP_UNAUTHORIZED == 401
HTTP_FORBIDDEN == 403
HTTP_SERVER_MIN == 500
HTTP_SERVER_MAX == 600

\* RequestOpts.max_attempts default.
max_attempts == 3

\* What the transport gives for one request: an HTTP response (a status and
\* a body), or an httpx.HTTPError raised by self._client.request (status 0,
\* the body field then names the error).
\* Bodies: "dict_ok" a JSON object whose error field is empty or absent,
\* "dict_err" a JSON object with a non-empty error field, "list" valid JSON
\* that is not an object, "not_json" a body resp.json() cannot decode.
Bodies == {"dict_ok", "dict_err", "list", "not_json"}
TransportErrors == {"ConnectError", "ReadTimeout"}

Response(sc, body) == [status |-> sc, body |-> body]

IsTransportError(r) == r.status = 0

\* An exception value: its type, its message text, the status code the
\* message quotes (0 when none) and the exception the message wraps.
NoCause == [exc |-> "none", text |-> "", code |-> 0]

Raise(exc, text, code) ==
    [exc |-> exc, text |-> text, code |-> code, cause |-> NoCause,
     payload |-> "none"]

\* f"...: {last_exc!r}": an exception whose message quotes another one.
RaiseFrom(exc, text, wrapped) ==
    [exc |-> exc, text |-> text, code |-> 0,
     cause |-> [exc |-> wrapped.exc, text |-> wrapped.text, code |-> wrapped.code],
     payload |-> "none"]

Return(payload) ==
    [exc |-> "none", text |-> "", code |-> 0, cause |-> NoCause,
     payload |-> payload]

\* resp.json(): the decoded payload, or json.JSONDecodeError.
json(resp) ==
    IF resp.body = "not_json" THEN Raise("JSONDecodeError", "Expecting value", 0)
    ELSE Return(resp.body)

_handle_response(resp) ==
    LET sc == resp.status IN
    IF sc = HTTP_TOO_MANY_REQUESTS THEN Raise("RateLimitError", "Rate limit (429)", sc)
    ELSE IF sc \in {HTTP_UNAUTHORIZED, HTTP_FORBIDDEN}
    THEN Raise("AuthError", "Auth error", sc)
    ELSE IF HTTP_SERVER_MIN <= sc /\ sc < HTTP_SERVER_MAX
    THEN Raise("ConnectivityError", "Server error", sc)
    ELSE LET payload == json(resp) IN
         IF payload.exc # "none" THEN payload
         ELSE IF payload.payload = "dict_err"
         THEN Raise("OrderRejectedError", "payload error", 0)
         ELSE IF payload.payload = "dict_ok" THEN Return("dict")
         ELSE Return("wrapped_result")

\* One attempt: self._client.request(...) then self._handle_response(resp).
Attempt(r) ==
    IF IsTransportError(r) THEN Raise("HTTPError", r.body, 0)
    ELSE _handle_response(r)

\* Mutant: the rate-limit failure is caught, and so retried, too.
Caught_rate_limit(res) ==
    res.exc \in {"HTTPError", "ConnectivityError", "RateLimitError"}

\* except (httpx.HTTPError, ConnectivityError)
Caught(res) == res.exc \in {"HTTPError", "ConnectivityError"}

\* The outcome of a _request call: what it raised or returned, the number
\* of HTTP requests it sent and the sleeps it made, in order (each in half
\* seconds: the first backoff, 0.5 s, is 1).
Outcome(res, requests, sleeps) ==
    [exc |-> res.exc, text |-> res.text, code |-> res.code, cause |-> res.cause,
     payload |-> res.payload, requests |-> requests, sleeps |-> sleeps]

\* Mutant: only the first failure is kept.
LastExc_first(last_exc, res) == IF last_exc.exc = "none" THEN res ELSE last_exc

\* last_exc = exc
LastExc(last_exc, res) == res

\* Mutant: the delay is not doubled after a sleep.
NextBackoff_constant(backoff) == backoff

\* backoff *= 2.0
NextBackoff(backoff) == backoff * 2

\* The retry loop of _request from attempt number `attempt` on; script[k]
\* is what the transport gives for the k-th request of the call.
RECURSIVE RetryLoop(_, _, _, _, _, _)
RetryLoop(attempt, max, script, backoff, last_exc, sleeps) ==
    IF attempt > max
    THEN \* range(1, max + 1) is empty: last_exc is None
         Outcome(Raise("ConnectivityError",
                       "Network failure after retries (unknown error)", 0),
                 attempt - 1, sleeps)
    ELSE LET res == Attempt(script[attempt]) IN
         IF ~Caught(res) THEN Outcome(res, attempt, sleeps)
         ELSE IF attempt >= max
         THEN Outcome(RaiseFrom("ConnectivityError", "Network failure after retries",
                                LastExc(last_exc, res)),
                      attempt, sleeps)
         ELSE RetryLoop(attempt + 1, max, script, NextBackoff(backoff),
                        LastExc(last_exc, res), Append(sleeps, backoff))

NoExc == Raise("none", "", 0)

\* client is [dry_run, key, secret]; key and secret are TRUE when set.
_request(client, private, max, script) ==
    IF private /\ (~client.key \/ ~client.secret)
    THEN Outcome(Raise("AuthError", "Kraken API key/secret not configured", 0), 0, <<>>)
    ELSE RetryLoop(1, max, script, 1, NoExc, <<>>)

\* The simulated answer of a dry-run add_order at time now (milliseconds):
\* {"result": {"txid": [f"DIA-DRYRUN-{int(time.time() * 1000)}"]}}.
DryRunPayload(now) ==
    [result |-> [txid |-> <<[prefix |-> "DIA-DRYRUN-", ms |-> FmtInt(now)]>>]]

\* The private branch of _request, on a copy of the caller's dict:
\* data.setdefault("nonce", int(time.time() * 1000)).
setdefault_nonce(data, now) ==
    IF "nonce" \in DOMAIN data THEN data.nonce ELSE now

\* The nonce of the private request that add_order signs; NoNonce when it
\* signs none (dry run, or no credentials).
NoNonce == -1
add_order_nonce(client, data, now) ==
    IF client.dry_run \/ ~client.key \/ ~client.secret THEN NoNonce
    ELSE setdefault_nonce(data, now)

\* Mutant: the dry-run flag is not consulted.
add_order_ignores_dry_run(client, data, script, now) ==
    _request(client, TRUE, max_attempts, script)

\* add_order(data) at time now; script is what the transport gives if the
\* call sends requests.
add_order(client, data, script, now) ==
    IF client.dry_run
    THEN Outcome(Return(DryRunPayload(now)), 0, <<>>)
    ELSE _request(client, TRUE, max_attempts, script)

(***************************************************************************)
(* exec/executor.py                                                        *)
(***************************************************************************)
\* Executor.__init__
Executor(client, mode, min_notional, limits, require_interactive_confirm) ==
    [client |-> client, mode |-> mode, min_notional |-> min_notional,
     limits |-> limits,
     require_interactive_confirm |-> require_interactive_confirm]

\* An operator's answer is a sequence of characters.
Whitespace == {" ", "\t"}
YES == <<"Y", "E", "S">>

RECURSIVE lstrip(_)
lstrip(s) ==
    IF s # <<>> /\ Head(s) \in Whitespace THEN lstrip(Tail(s)) ELSE s

RECURSIVE rstrip(_)
rstrip(s) ==
    IF s # <<>> /\ s[Len(s)] \in Whitespace
    THEN rstrip(SubSeq(s, 1, Len(s) - 1)) ELSE s

\* str.strip()
strip(s) == rstrip(lstrip(s))

\* Mutant: the prompt is shown but any answer is taken as a confirmation.
_confirm_live_any_answer(self, answer) ==
    [prompted |-> self.mode = "live" /\ self.require_interactive_confirm,
     exc |-> "none"]

\* Whether the prompt is shown, and what the call raises.
_confirm_live(self, answer) ==
    IF self.mode = "live" /\ self.require_interactive_confirm
    THEN [prompted |-> TRUE,
          exc |-> IF strip(answer) # YES THEN "SystemExit" ELSE "none"]
    ELSE [prompted |-> FALSE, exc |-> "none"]

\* SubmittedOrder(client_order_id=..., status=..., reason=...); reason None
\* is NoMsg, exchange_order_id keeps its default None.
SubmittedOrder(client_order_id, status, reason) ==
    [client_order_id |-> client_order_id, exchange_order_id |-> None,
     status |-> status, reason |-> reason]

NoOrder == SubmittedOrder(0, "none", NoMsg)

\* The payload dict built in live mode; price None when the key is absent.
Payload(intent) ==
    [pair |-> intent.symbol, type |-> intent.side, ordertype |-> intent.type,
     volume |-> intent.qty, validate |-> "true",
     price |-> IF intent.type = "limit" /\ intent.limit_price # None
               THEN intent.limit_price ELSE None]

NoNet == Outcome(Return("none"), 0, <<>>)

\* What a submit call did: the exception it let escape (exc, "none" when it
\* returned) or the SubmittedOrder it returned, whether it prompted the
\* operator, the payloads it handed to client.add_order and the client's
\* network activity.
SubmitResult(exc, order, prompted, payloads, net) ==
    [exc |-> exc, order |-> order, prompted |-> prompted,
     payloads |-> payloads, requests |-> net.requests,
     sleeps |-> net.sleeps,
     error |-> [exc |-> net.exc, text |-> net.text, code |-> net.code]]

\* Mutant: only the first submission is accepted, a repeated one is left
\* pending.
Accepted_once(uuid) ==
    SubmitResult("none",
                 SubmittedOrder(uuid, IF uuid = 1 THEN "accepted" ELSE "pending", NoMsg),
                 FALSE, <<>>, NoNet)

\* What the call returns without going to the exchange.
Accepted(uuid) ==
    SubmitResult("none", SubmittedOrder(uuid, "accepted", NoMsg), FALSE, <<>>, NoNet)

\* Mutant: the rejection drops the text of the risk error.
Rejected_without_reason(uuid, reason) ==
    SubmitResult("none", SubmittedOrder(uuid, "rejected", NoMsg), FALSE, <<>>, NoNet)

Rejected(uuid, reason) ==
    SubmitResult("none", SubmittedOrder(uuid, "rejected", reason), FALSE, <<>>, NoNet)

\* The live branch of submit: confirmation, payload, client.add_order.  The
\* answer of add_order is dropped, so the time of the call (0 here) does
\* not reach the SubmittedOrder.
LiveSubmit(self, intent, uuid, answer, script) ==
    LET c == _confirm_live(self, answer) IN
    IF c.exc # "none"
    THEN SubmitResult(c.exc, NoOrder, c.prompted, <<>>, NoNet)
    ELSE LET payload == Payload(intent)
             r == add_order(self.client, payload, script, 0)
         IN  IF r.exc # "none"
             THEN SubmitResult(r.exc, NoOrder, c.prompted, <<payload>>, r)
             ELSE SubmitResult("none", SubmittedOrder(uuid, "accepted", NoMsg),
                               c.prompted, <<payload>>, r)

\* Mutant: the paper branch does not return and falls into the live branch.
Dispatch_paper_falls_through(self, intent, uuid, answer, script) ==
    IF self.mode = "dry_run" THEN Accepted(uuid)
    ELSE LiveSubmit(self, intent, uuid, answer, script)

\* The dispatch on self.mode that follows a passed risk check.
Dispatch(self, intent, uuid, answer, script) ==
    IF self.mode = "dry_run" THEN Accepted(uuid)
    ELSE IF self.mode = "paper" THEN Accepted(uuid)
    ELSE LiveSubmit(self, intent, uuid, answer, script)

\* Mutant: the risk error is not caught and escapes to the caller.
submit_no_catch(self, intent, equity, uuid, answer, script) ==
    LET chk == pre_trade_checks(intent, self.limits, equity, self.min_notional) IN
    IF chk.exc = "RiskLimitExceededError"
    THEN SubmitResult(chk.exc, NoOrder, FALSE, <<>>, NoNet)
    ELSE Dispatch(self, intent, uuid, answer, script)

\* Mutant: the operator is asked to confirm before the risk check is made.
submit_confirm_first(self, intent, equity, uuid, answer, script) ==
    LET c == _confirm_live(self, answer)
        chk == pre_trade_checks(intent, self.limits, equity, self.min_notional)
    IN  IF c.exc # "none"
        THEN SubmitResult(c.exc, NoOrder, c.prompted, <<>>, NoNet)
        ELSE IF chk.exc = "RiskLimitExceededError"
        THEN [Rejected(uuid, chk.msg) EXCEPT !.prompted = c.prompted]
        ELSE Dispatch(self, intent, uuid, answer, script)

\* Executor.submit(intent, equity); uuid is the fresh uuid4 of the call,
\* answer what the operator types if prompted, script what the transport
\* gives if the client sends requests.
submit(self, intent, equity, uuid, answer, script) ==
    LET chk == pre_trade_checks(intent, self.limits, equity, self.min_notional) IN
    IF chk.exc = "RiskLimitExceededError"
    THEN Rejected(uuid, chk.msg)
    ELSE Dispatch(self, intent, uuid, answer, script)

(***************************************************************************)
(* orchestrator/scheduler.py                                               *)
(*                                                                         *)
(* CPU and RAM loads and quotas are whole percents, sleeps and             *)
(* base_backoff_s are in milliseconds.  JobResult.duration_s, a difference *)
(* of two monotonic() readings, is left out of the records.                *)
(***************************************************************************)
\* Defaults of SchedulerConfig, SystemQuotas and RetryPolicy.
max_workers == 2
max_cpu_pct == 85
max_ram_pct == 85
check_interval_s == 2
max_retries == 2
base_backoff_s == 500

SystemQuotas(cpu, ram) ==
    [max_cpu_pct |-> cpu, max_ram_pct |-> ram, check_interval_s |-> check_interval_s]

RetryPolicy(retries, backoff) ==
    [max_retries |-> retries, base_backoff_s |-> backoff]

SchedulerConfig(workers, quotas, retry) ==
    [max_workers |-> workers, quotas |-> quotas, retry |-> retry]

\* SchedulerConfig(): what run_batch uses when cfg is None.
DefaultConfig ==
    SchedulerConfig(max_workers, SystemQuotas(max_cpu_pct, max_ram_pct),
                    RetryPolicy(max_retries, base_backoff_s))

\* An exception raised by the worker or by the scheduler: its type and its
\* message.  NoError is the error None of a JobResult.
Exc(type, msg) == [type |-> type, msg |-> msg]
NoError == Exc("", "")

\* f"{type(e).__name__}: {e}": the text keeps the type name and the message.
ErrText(e) == [type |-> e.type, msg |-> e.msg]

JobResult(symbol, ok, attempts, error) ==
    [symbol |-> symbol, ok |-> ok, attempts |-> attempts, error |-> error]

NoResult == JobResult("", FALSE, 0, NoError)

\* The machine's load at one instant.
Load(cpu, ram) == [cpu |-> cpu, ram |-> ram]
NoLoad == Load(0, 0)

\* _sys_ok(quotas) when the machine's load is load; ps is FALSE when the
\* psutil import failed (psutil is None).
_sys_ok(quotas, ps, load) ==
    IF ~ps THEN TRUE
    ELSE (load.cpu <= quotas.max_cpu_pct) /\ (load.ram <= quotas.max_ram_pct)

\* Mutant: the backoff grows linearly.
_backoff_sleep_linear(base, n) == base * ((IF n > 0 THEN n ELSE 0) + 1)

\* _backoff_sleep(base, n): the time slept.
_backoff_sleep(base, n) == base * (2 ^ (IF n > 0 THEN n ELSE 0))

\* except (OSError, TimeoutError, ValueError)
Retryable == {"OSError", "TimeoutError", "ValueError"}

\* One _run_one call in progress.  pc is where it stands: "unsubmitted"
\* (no call made yet), "pending" (submitted to the pool, not started),
\* "check" (at the top of an iteration of the for loop), "call" (quota
\* check passed, about to call fn), "returned" or "raised".  k, attempts and
\* err are the function's locals; ret is what it returned or raised.  load
\* (the machine's load at the quota check of the current attempt, NoLoad
\* once fn has been called), checks (the number of _sys_ok calls), calls
\* (what each fn call did, in order) and sleeps (the backoff sleeps, in
\* order) record what the call has done.
Job(pc) ==
    [pc |-> pc, k |-> 0, attempts |-> 0, err |-> NoError, load |-> NoLoad,
     checks |-> 0, calls |-> <<>>, sleeps |-> <<>>,
     ret |-> [exc |-> Exc("", ""), result |-> NoResult]]

Returning(job, result) ==
    [job EXCEPT !.pc = "returned", !.ret = [exc |-> NoError, result |-> result]]

Raising(job, e) ==
    [job EXCEPT !.pc = "raised", !.ret = [exc |-> e, result |-> NoResult]]

\* _run_one up to the for loop: range(retry.max_retries + 1) may be empty.
_run_one_start(job, symbol, retry) ==
    IF retry.max_retries + 1 <= 0
    THEN Returning(job, JobResult(symbol, FALSE, 0, NoError))
    ELSE [job EXCEPT !.pc = "check", !.k = 0]

\* Mutant: attempts is not updated at the top of the iteration.
_run_one_check_stale_attempts(job, quotas, ps, load) ==
    LET j == [job EXCEPT !.checks = job.checks + 1, !.load = load]
    IN  IF ~_sys_ok(quotas, ps, load)
        THEN Raising(j, Exc("SchedulerOverloadError", "System quotas exceeded"))
        ELSE [j EXCEPT !.pc = "call"]

\* The top of an iteration: attempts = k + 1, then the quota check.
_run_one_check(job, quotas, ps, load) ==
    LET j == [job EXCEPT !.attempts = job.k + 1, !.checks = job.checks + 1,
                         !.load = load]
    IN  IF ~_sys_ok(quotas, ps, load)
        THEN Raising(j, Exc("SchedulerOverloadError", "System quotas exceeded"))
        ELSE [j EXCEPT !.pc = "call"]

\* Mutant: a success reports the index of the attempt, not the count.
_run_one_call_index(job, symbol, retry, e) ==
    LET j == [job EXCEPT !.calls = Append(job.calls, e), !.load = NoLoad] IN
    IF e = NoError
    THEN Returning(j, JobResult(symbol, TRUE, j.k, NoError))
    ELSE IF e.type = "SchedulerOverloadError" THEN Raising(j, e)
    ELSE IF e.type \in Retryable
    THEN IF j.k < retry.max_retries
         THEN [j EXCEPT !.err = ErrText(e),
                        !.sleeps = Append(j.sleeps,
                                          _backoff_sleep(retry.base_backoff_s, j.k)),
                        !.k = j.k + 1,
                        !.pc = "check"]
         ELSE Returning([j EXCEPT !.err = ErrText(e)],
                        JobResult(symbol, FALSE, j.attempts, ErrText(e)))
    ELSE Raising(j, e)

\* Mutant: the retry test lets one attempt more through.
_run_one_call_extra_retry(job, symbol, retry, e) ==
    LET j == [job EXCEPT !.calls = Append(job.calls, e), !.load = NoLoad] IN
    IF e = NoError
    THEN Returning(j, JobResult(symbol, TRUE, j.attempts, NoError))
    ELSE IF e.type = "SchedulerOverloadError" THEN Raising(j, e)
    ELSE IF e.type \in Retryable
    THEN IF j.k <= retry.max_retries
         THEN [j EXCEPT !.err = ErrText(e),
                        !.sleeps = Append(j.sleeps,
                                          _backoff_sleep(retry.base_backoff_s, j.k)),
                        !.k = j.k + 1,
                        !.pc = "check"]
         ELSE Returning([j EXCEPT !.err = ErrText(e)],
                        JobResult(symbol, FALSE, j.attempts, ErrText(e)))
    ELSE Raising(j, e)

\* The try statement of an iteration; e is what fn(symbol) raises, NoError
\* when it returns.
_run_one_call(job, symbol, retry, e) ==
    LET j == [job EXCEPT !.calls = Append(job.calls, e), !.load = NoLoad] IN
    IF e = NoError
    THEN Returning(j, JobResult(symbol, TRUE, j.attempts, NoError))
    ELSE IF e.type = "SchedulerOverloadError" THEN Raising(j, e)
    ELSE IF e.type \in Retryable
    THEN IF j.k < retry.max_retries
         THEN [j EXCEPT !.err = ErrText(e),
                        !.sleeps = Append(j.sleeps,
                                          _backoff_sleep(retry.base_backoff_s, j.k)),
                        !.k = j.k + 1,
                        !.pc = "check"]
         ELSE Returning([j EXCEPT !.err = ErrText(e)],
                        JobResult(symbol, FALSE, j.attempts, ErrText(e)))
    ELSE Raising(j, e)

(***************************************************************************)
(* exec/pre_trade.py, propose_order: sizing, then the projected exposure,  *)
(* then the risk limits.                                                   *)
(***************************************************************************)
MarketSnapshot(price, atr, k_atr) == [price |-> price, atr |-> atr, k_atr |-> k_atr]

RiskContext(equity, current_exposure_pct, orders_last_min) ==
    [equity |-> equity, current_exposure_pct |-> current_exposure_pct,
     orders_last_min |-> orders_last_min]

\* min_qty is in units of 10^-QtyDigits, as in SizingParams.
ExchangeMeta(qty_decimals, min_qty, mn) ==
    [qty_decimals |-> qty_decimals, min_qty |-> min_qty, min_notional |-> mn]

\* The parts of AppConfig that propose_order reads; risk_per_trade_pct, a
\* field of cfg.risk, is in tenths of a percent as in SizingParams.
AppConfig(exchange, risk, risk_per_trade_pct) ==
    [exchange |-> exchange, risk |-> risk, risk_per_trade_pct |-> risk_per_trade_pct]

\* What propose_order did: the exception it raised (with the message of a
\* risk error), or the dict it returned.  qty is in units of 10^-QtyDigits
\* and notional in the same units of currency.
Proposal(exc, msg, qty, notional) ==
    [exc |-> exc, msg |-> msg, qty |-> qty, notional |-> notional]

\* (notional / risk.equity) * 100.0, in hundredths of a percent: the
\* notional is in units of 10^-QtyDigits, and 10000 / 10^QtyDigits is
\* 10 / 10^(QtyDigits - 3).
NotionalPct(notional, equity) ==
    (notional * 10) \div (equity * Pow10(QtyDigits - 3))

\* propose_order(cfg=, market=, risk=).  The sizer's division and the
\* division by risk.equity raise ZeroDivisionError on a zero divisor.
propose_order(appcfg, market, risk) ==
    LET params == SizingParams(risk.equity, market.price, market.atr,
                               appcfg.risk_per_trade_pct, market.k_atr,
                               appcfg.exchange.min_qty, appcfg.exchange.min_notional,
                               appcfg.exchange.qty_decimals)
        qty == compute_position_size(params)
        notional == qty.qty * market.price
    IN  IF qty.exc # "none" THEN Proposal(qty.exc, NoMsg, 0, 0)
        ELSE IF risk.equity = 0 THEN Proposal("ZeroDivisionError", NoMsg, 0, 0)
        ELSE LET projected_exposure_pct ==
                     risk.current_exposure_pct + NotionalPct(notional, risk.equity)
                 v == validate_order(appcfg.risk,
                          RiskCheckParams(risk.current_exposure_pct,
                                          projected_exposure_pct, 0, 0,
                                          risk.orders_last_min))
             IN  IF v.exc # "none" THEN Proposal(v.exc, v.msg, 0, 0)
                 ELSE Proposal("none", NoMsg, qty.qty, notional)

(***************************************************************************)
(* monitor/health_monitor.py and orchestrator/overload_guard.py: the load  *)
(* probe, and the guard that drops low-priority pairs under sustained      *)
(* overload and reports it through an email alerter.                       *)
(***************************************************************************)
MAX_HISTORY == 128

Thresholds(cpu_pct, ram_pct, latency_ms, sustain_windows) ==
    [cpu_pct |-> cpu_pct, ram_pct |-> ram_pct, latency_ms |-> latency_ms,
     sustain_windows |-> sustain_windows]

DefaultThresholds == Thresholds(90, 90, 250, 3)

\* A measure; its timestamp is never read.
LoadSnapshot(cpu_pct, ram_pct, latency_ms) ==
    [cpu_pct |-> cpu_pct, ram_pct |-> ram_pct, latency_ms |-> latency_ms]

\* reason is None (<<>>) or the text made of the last measure's values.
OverloadDecision(overloaded, reason, drop_pairs) ==
    [overloaded |-> overloaded, reason |-> reason, drop_pairs |-> drop_pairs]

HealthMonitor(thresholds) ==
    [th |-> thresholds, _history |-> <<>>, _violation_streak |-> 0]

Min(a, b) == IF a <= b THEN a ELSE b
Max(a, b) == IF a >= b THEN a ELSE b

\* seq[-n:]
LastN(seq, n) ==
    IF Len(seq) > n THEN SubSeq(seq, Len(seq) - n + 1, Len(seq)) ELSE seq

\* HealthMonitor.sample: snap is the measure taken (cpu and ram 0 when
\* psutil is absent); the history keeps the last MAX_HISTORY measures.
sample(self, snap) ==
    [self EXCEPT !._history = LastN(Append(@, snap), MAX_HISTORY)]

\* HealthMonitor.evaluate: the monitor after the call, and the decision.
evaluate(self, active_pairs, low_priority) ==
    IF self._history = <<>>
    THEN [self |-> self, decision |-> OverloadDecision(FALSE, <<>>, 0)]
    ELSE LET s == self._history[Len(self._history)]
             violated == \/ s.cpu_pct >= self.th.cpu_pct
                         \/ s.ram_pct >= self.th.ram_pct
                         \/ s.latency_ms >= self.th.latency_ms
             streak == IF violated THEN self._violation_streak + 1 ELSE 0
             hm == [self EXCEPT !._violation_streak = streak]
         IN  IF streak >= self.th.sustain_windows
             THEN LET n_active == Max(1, Len(active_pairs))
                      to_drop == Min(Max(1, n_active \div 5), Len(low_priority))
                  IN  [self |-> hm,
                       decision |-> OverloadDecision(TRUE,
                                        <<s.cpu_pct, s.ram_pct, s.latency_ms>>,
                                        to_drop)]
             ELSE [self |-> hm, decision |-> OverloadDecision(FALSE, <<>>, 0)]

Elements(seq) == { seq[n] : n \in 1..Len(seq) }

\* [p for p in active_pairs if p not in to_disable]
Without(active_pairs, to_disable) ==
    LET keep(p) == p \notin Elements(to_disable)
    IN  SelectSeq(active_pairs, keep)

\* The exception classes that do not derive from Exception.
BaseExceptionsOnly == {"KeyboardInterrupt", "SystemExit", "GeneratorExit"}

\* with contextlib.suppress(Exception): what is left of an exception e
\* raised in the block.
suppress_Exception(e) ==
    IF e = NoError \/ e.type \notin BaseExceptionsOnly THEN NoError ELSE e

\* What a tick call did: the guard after it, the exception it let escape
\* or the list it returned, the alerts it handed to alerter.send and the
\* warnings it logged.
TickResult(self, exc, ret, alerts, warnings) ==
    [self |-> self, exc |-> exc, ret |-> ret, alerts |-> alerts,
     warnings |-> warnings]

\* Mutant: the alerter's exception is logged and re-raised to the caller.
tick_alert_escapes(self, active_pairs, low_priority_pairs, snap, e) ==
    LET ev == evaluate(sample(self.hm, snap), active_pairs, low_priority_pairs)
        guard == [self EXCEPT !.hm = ev.self]
    IN  IF ~ev.decision.overloaded
        THEN TickResult(guard, NoError, active_pairs, <<>>, <<>>)
        ELSE TickResult(guard, e,
                        IF e = NoError
                        THEN Without(active_pairs,
                                     SubSeq(low_priority_pairs, 1,
                                            ev.decision.drop_pairs))
                        ELSE <<>>,
                        <<ev.decision>>, <<>>)

\* OverloadGuard.tick; snap is the measure that hm.sample takes (its latency
\* is avg_cycle_latency_ms) and e what alerter.send raises, NoError when it
\* returns.
tick(self, active_pairs, low_priority_pairs, snap, e) ==
    LET ev == evaluate(sample(self.hm, snap), active_pairs, low_priority_pairs)
        decision == ev.decision
        guard == [self EXCEPT !.hm = ev.self]
    IN  IF ~decision.overloaded
        THEN TickResult(guard, NoError, active_pairs, <<>>, <<>>)
        ELSE LET to_disable == SubSeq(low_priority_pairs, 1,
                                      Min(decision.drop_pairs, Len(low_priority_pairs)))
                 new_list == Without(active_pairs, to_disable)
                 alert == [reason |-> decision.reason,
                           before |-> Len(active_pairs), after |-> Len(new_list),
                           dropped |-> decision.drop_pairs,
                           disabled |-> to_disable]
                 escaped == suppress_Exception(e)
             IN  IF escaped # NoError
                 THEN TickResult(guard, escaped, <<>>, <<alert>>,
                                 IF e = NoError THEN <<>> ELSE <<e>>)
                 ELSE TickResult(guard, NoError, new_list, <<alert>>,
                                 IF e = NoError THEN <<>> ELSE <<e>>)

OverloadGuard(thresholds) == [hm |-> HealthMonitor(thresholds)]

(***************************************************************************)
(* alerts/telegram_alerts.py and cli/helpers.py: the notification that the *)
(* orchestration worker sends after run_once.                              *)
(***************************************************************************)
TgConfig(token, chat_id, dry_run) ==
    [token |-> token, chat_id |-> chat_id, dry_run |-> dry_run]

NoTgConfig == TgConfig("", "", TRUE)

\* load_config_from_env: environ gives "" for a variable that is not set,
\* except DIA_TELEGRAM_DRY_RUN whose default is "1".
load_config_from_env(environ) ==
    IF environ.TELEGRAM_BOT_TOKEN = "" \/ environ.TELEGRAM_CHAT_ID = ""
    THEN NoTgConfig
    ELSE TgConfig(environ.TELEGRAM_BOT_TOKEN, environ.TELEGRAM_CHAT_ID,
                  environ.DIA_TELEGRAM_DRY_RUN # "0")

\* telegram_alerts.send: transport is the status that the transport
\* callable returns, NoTransport when the caller passes none.
NoTransport == 0
tg_send(tgcfg, transport) ==
    IF tgcfg.dry_run THEN [exc |-> NoError, value |-> TRUE]
    ELSE IF transport = NoTransport
    THEN [exc |-> Exc("RuntimeError", "No transport provided in live mode"),
          value |-> FALSE]
    ELSE [exc |-> NoError, value |-> 200 <= transport /\ transport < 300]

\* The exceptions that send_trade_notification catches around tg_send.
NotificationCaught == {"RuntimeError", "ValueError", "OSError"}

\* send_trade_notification(mode, symbol, side, k_atr_override, enabled):
\* the exception it lets escape, and whether it called tg_send.
send_trade_notification(enabled, environ) ==
    IF ~enabled THEN [exc |-> NoError, sent |-> FALSE]
    ELSE LET tgcfg == load_config_from_env(environ) IN
         IF tgcfg = NoTgConfig THEN [exc |-> NoError, sent |-> FALSE]
         ELSE LET r == tg_send(tgcfg, NoTransport) IN
              IF r.exc # NoError /\ r.exc.type \notin NotificationCaught
              THEN [exc |-> r.exc, sent |-> TRUE]
              ELSE [exc |-> NoError, sent |-> TRUE]

(***************************************************************************)
(* SharedState (bot/shared.py): the state the bot engines share, behind a  *)
(* lock.  Exposures and thresholds count hundredths of the equity (100 is  *)
(* 1.0), drawdowns hundredths too; equity_used is the sum of the exposures *)
(* times the equity, so it counts hundredths of a currency unit.  A dict   *)
(* is the set of its <<key, value>> pairs.                                 *)
(***************************************************************************)
SharedState(global_equity) ==
    [global_equity |-> global_equity,
     max_drawdown_pct |-> 25,
     exposure_by_symbol |-> {},
     equity_used |-> 0,
     current_drawdown_pct |-> 0,
     _lock |-> FALSE]

\* d[k] = v on a dict.
DictSet(d, k, v) == { p \in d : p[1] # k } \cup {<<k, v>>}

\* sum(d.values()).
RECURSIVE sum_values(_)
sum_values(d) ==
    IF d = {} THEN 0
    ELSE LET p == CHOOSE q \in d : TRUE
         IN p[2] + sum_values(d \ {p})

\* update_exposure, first statement under the lock:
\* self.exposure_by_symbol[symbol] = exposure.
update_exposure_set(self, symbol, exposure) ==
    [self EXCEPT !.exposure_by_symbol = DictSet(@, symbol, exposure)]

\* update_exposure, the right-hand side of its second statement.
update_exposure_sum(self) ==
    sum_values(self.exposure_by_symbol) * self.global_equity

\* update_exposure, the assignment of its second statement.
update_exposure_store(self, total) == [self EXCEPT !.equity_used = total]

\* can_trade: total_expo + threshold <= 1.0; the symbol is not used.
can_trade(self, threshold) ==
    sum_values(self.exposure_by_symbol) + threshold <= 100

\* record_drawdown: 1.0 - equity_now / global_equity divides by a zero
\* equity; otherwise the largest drawdown seen is kept.
record_drawdown(self, equity_now) ==
    IF self.global_equity = 0
    THEN [exc |-> "ZeroDivisionError", self |-> self]
    ELSE [exc |-> "none",
          self |-> [self EXCEPT !.current_drawdown_pct =
                       Max(@, 100 - (100 * equity_now) \div self.global_equity)]]

\* A thread's call of a SharedState method: where it is, what it was called
\* with, the total it computed, what it returned.
NoReturn == [exc |-> "none", value |-> "None"]
Call(pc, op, symbol, arg) ==
    [pc |-> pc, op |-> op, symbol |-> symbol, arg |-> arg, tmp |-> 0,
     ret |-> NoReturn]
NoThreadCall == Call("idle", "", "", 0)

(***************************************************************************)
(* The executor as a state machine: an Executor is constructed, then       *)
(* submit is called up to MaxSubmits times.                                *)
(***************************************************************************)
Modes == {"dry_run", "paper", "live"}

KrakenClient(dry_run, key, secret) ==
    [dry_run |-> dry_run, key |-> key, secret |-> secret]

\* Clients: dry-run or not, with or without credentials.
Clients == { KrakenClient(d, k, k) : d \in BOOLEAN, k \in BOOLEAN }

\* Account equity of the submissions, and Executor.min_notional default.
Equity == 10000
min_notional == 10

\* The caller's portfolio metrics at a submission: within every limit, over
\* the exposure limit (current 49%, projected 55%), over the order rate, and
\* over all four limits at once.
SubmitMetrics ==
    {RiskCheckParams(0, 0, 0, 0, 0), RiskCheckParams(4900, 5500, 0, 0, 0),
     RiskCheckParams(0, 5000, 200, 1500, 31),
     RiskCheckParams(6000, 5500, 501, 1600, 31)}

SubmitIntents(m) ==
    { i \in IntentsOf(m) :
        \/ i.side = "buy" /\ i.type = "market" /\ i.limit_price = None /\ i.qty = 1
        \/ i.side = "sell" /\ i.type = "limit" /\ i.limit_price # None }

NoAnswer == <<>>
Answers == {YES, <<" ", "Y", "E", "S", "\t">>, <<"y", "e", "s">>, NoAnswer,
            <<"Y", "E", "S", "!">>}

Ok200 == Response(200, "dict_ok")
\* What the transport gives for the requests of one add_order call.
SubmitScripts ==
    {<<Ok200, Ok200, Ok200>>,
     <<Response(200, "dict_err"), Ok200, Ok200>>,
     <<Response(429, "not_json"), Ok200, Ok200>>,
     <<Response(502, "not_json"), Ok200, Ok200>>,
     <<Response(502, "not_json"), Response(0, "ReadTimeout"), Response(599, "not_json")>>}

NoCall == [called |-> FALSE]

\* The executor's variables, where the executor is the machine.
InitExec ==
    /\ ex \in { Executor(c, m, min_notional, DefaultLimits, ric) :
                  c \in Clients, m \in Modes, ric \in BOOLEAN }
    /\ submits = 0
    /\ addOrderCalls = 0
    /\ httpRequests = 0
    /\ prompts = 0
    /\ accepted = 0
    /\ rejected = 0
    /\ last = NoCall
    /\ resub = NoCall

\* The executor's variables, where it is not: Executor(client) with the
\* default arguments on a default (dry-run, no credentials) client.
IdleExec ==
    /\ ex = Executor(KrakenClient(TRUE, FALSE, FALSE), "dry_run", min_notional,
                     DefaultLimits, TRUE)
    /\ submits = 0
    /\ addOrderCalls = 0
    /\ httpRequests = 0
    /\ prompts = 0
    /\ accepted = 0
    /\ rejected = 0
    /\ last = NoCall
    /\ resub = NoCall

execVars == <<ex, submits, addOrderCalls, httpRequests, prompts, accepted,
              rejected, last, resub>>

\* The add_order machine's variables, where it is not the machine: a
\* default client (dry-run, no credentials) that is never called.
IdleAddOrder ==
    /\ kc = KrakenClient(TRUE, FALSE, FALSE)
    /\ clock = 0
    /\ alog = <<>>

aoVars == <<kc, clock, alog>>

\* The run_batch call, before it is made.
NoBatch ==
    [pc |-> "idle", next |-> 1, early |-> {}, yielded |-> {}, results |-> <<>>,
     exc |-> NoError]

\* The scheduler's variables, where it is not the machine: no symbols, the
\* default configuration, run_batch never called.
IdleSched ==
    /\ cfg = DefaultConfig
    /\ symbols = <<>>
    /\ psutil = FALSE
    /\ jobs = <<>>
    /\ finished = <<>>
    /\ batch = NoBatch

schedVars == <<cfg, symbols, psutil, jobs, finished, batch>>

\* The SharedState variables, where it is not the machine: no thread.
IdleShared ==
    /\ ss = SharedState(0)
    /\ thr = <<>>
    /\ writes = <<>>
    /\ ncalls = 0

sharedVars == <<ss, thr, writes, ncalls>>

NoTick == TickResult(OverloadGuard(DefaultThresholds), NoError, <<>>, <<>>, <<>>)

\* The alert variables, where they are not the machine.
IdleAlerts ==
    /\ og = [self |-> OverloadGuard(DefaultThresholds),
             pairs |-> [active |-> <<>>, low |-> <<>>], ticks |-> 0,
             e |-> NoError, last |-> NoTick]
    /\ notif = NoCall

alertVars == <<og, notif>>

Init ==
    /\ InitExec
    /\ vcall = NoCall
    /\ scall = NoCall
    /\ rcall = NoCall
    /\ IdleAddOrder
    /\ IdleSched
    /\ IdleShared
    /\ pcall = NoCall
    /\ IdleAlerts

\* One Executor.submit call.  The operator's answer and the transport's
\* script are drawn only where the call can consume them.
SubmitCall(m, intent) ==
    /\ submits < MaxSubmits
    /\ \E answer \in IF ex.mode = "live" /\ ex.require_interactive_confirm
                     THEN Answers ELSE {NoAnswer} :
       \E script \in IF ex.mode = "live" /\ ~ex.client.dry_run /\ ex.client.key
                     THEN SubmitScripts ELSE {<<Ok200, Ok200, Ok200>>} :
         LET r == submit(ex, intent, Equity, submits + 1, answer, script) IN
         /\ last' = [called |-> TRUE, intent |-> intent, metrics |-> m,
                     answer |-> answer, res |-> r]
         /\ submits' = submits + 1
         /\ addOrderCalls' = addOrderCalls + Len(r.payloads)
         /\ httpRequests' = httpRequests + r.requests
         /\ prompts' = prompts + (IF r.prompted THEN 1 ELSE 0)
         /\ accepted' = accepted + (IF r.order.status = "accepted" THEN 1 ELSE 0)
         /\ rejected' = rejected + (IF r.order.status = "rejected" THEN 1 ELSE 0)
    /\ UNCHANGED <<ex, vcall, scall, rcall, aoVars, schedVars, sharedVars, pcall, alertVars>>

Submit ==
    /\ \E m \in SubmitMetrics : \E intent \in SubmitIntents(m) : SubmitCall(m, intent)
    /\ UNCHANGED resub

Next == Submit

Spec == Init /\ [][Next]_vars

(***************************************************************************)
(* The executor called again and again with one intent and one equity.     *)
(***************************************************************************)
InitResubmit ==
    /\ ex \in { Executor(c, m, min_notional, DefaultLimits, ric) :
                  c \in Clients, m \in Modes, ric \in BOOLEAN }
    /\ submits = 0
    /\ addOrderCalls = 0
    /\ httpRequests = 0
    /\ prompts = 0
    /\ accepted = 0
    /\ rejected = 0
    /\ last = NoCall
    /\ \E m \in SubmitMetrics : \E intent \in SubmitIntents(m) :
         resub = [called |-> TRUE, self |-> ex, metrics |-> m,
                  intent |-> intent, records |-> <<>>]
    /\ vcall = NoCall
    /\ scall = NoCall
    /\ rcall = NoCall
    /\ IdleAddOrder
    /\ IdleSched
    /\ IdleShared
    /\ pcall = NoCall
    /\ IdleAlerts

\* One more submit of the same intent; what the call raised or returned is
\* kept, in the order of the calls.
Resubmit ==
    /\ SubmitCall(resub.metrics, resub.intent)
    /\ resub' = [resub EXCEPT !.records =
                    Append(@, [exc |-> last'.res.exc, order |-> last'.res.order])]

NextResubmit == Resubmit

SpecResubmit == InitResubmit /\ [][NextResubmit]_vars

(***************************************************************************)
(* validate_order on drawn inputs: the initial state holds the arguments   *)
(* of a call, the step makes the call.                                     *)
(***************************************************************************)
InitValidator ==
    /\ IdleExec
    /\ \E limits \in LimitsSet : \E params \in MetricsSet :
         vcall = [called |-> FALSE, limits |-> limits, params |-> params,
                  res |-> Passed]
    /\ scall = NoCall
    /\ rcall = NoCall
    /\ IdleAddOrder
    /\ IdleSched
    /\ IdleShared
    /\ pcall = NoCall
    /\ IdleAlerts

Validate ==
    /\ ~vcall.called
    /\ vcall' = [vcall EXCEPT !.called = TRUE,
                              !.res = validate_order(vcall.limits, vcall.params)]
    /\ UNCHANGED <<execVars, scall, rcall, aoVars, schedVars, sharedVars, pcall, alertVars>>

NextValidator == Validate

SpecValidator == InitValidator /\ [][NextValidator]_vars

(***************************************************************************)
(* compute_position_size on drawn inputs.                                  *)
(***************************************************************************)
\* min_qty 14 and 16 (0.014 and 0.016 for QtyDigits = 3) are not multiples
\* of the step of a two-decimal quantity (round() takes the first down and
\* the second up); the others are.  No input makes the rounded value
\* a decimal tie, where the binary expansion of the float decides the
\* direction of round(): on these inputs the exact arithmetic of the model
\* and the floating-point arithmetic of the code give the same quantity.
SizingInputs ==
    { SizingParams(equity, price, atr, rpt, k_atr, min_qty, mn, dec) :
        equity \in {0, 4, 1000, 10000}, price \in {0, 100, 200, 2000},
        atr \in {0, 1, 5}, rpt \in {5, 10}, k_atr \in {0, 2},
        min_qty \in {0, 1, 14, 16, 100}, mn \in {0, 10},
        dec \in {0, 2, QtyDigits} }

InitSizer ==
    /\ IdleExec
    /\ vcall = NoCall
    /\ \E params \in SizingInputs :
         scall = [called |-> FALSE, params |-> params, res |-> Qty(0, FALSE)]
    /\ rcall = NoCall
    /\ IdleAddOrder
    /\ IdleSched
    /\ IdleShared
    /\ pcall = NoCall
    /\ IdleAlerts

Size ==
    /\ ~scall.called
    /\ scall' = [scall EXCEPT !.called = TRUE,
                              !.res = compute_position_size(scall.params)]
    /\ UNCHANGED <<execVars, vcall, rcall, aoVars, schedVars, sharedVars, pcall, alertVars>>

NextSizer == Size

SpecSizer == InitSizer /\ [][NextSizer]_vars

(***************************************************************************)
(* KrakenClient._request on drawn inputs: the initial state holds the      *)
(* client, the arguments and the transport's script, the step makes the    *)
(* call.                                                                   *)
(***************************************************************************)
\* Largest max_attempts explored.
MaxAttempts == 3

\* What the transport can give for a request.
Responses ==
    {Response(200, "dict_ok"), Response(200, "dict_err"), Response(200, "list"),
     Response(200, "not_json"), Response(404, "not_json"), Response(400, "dict_err"),
     Response(429, "not_json"), Response(429, "dict_err"), Response(401, "not_json"),
     Response(403, "dict_ok"), Response(500, "not_json"), Response(502, "dict_err"),
     Response(599, "not_json"), Response(0, "ConnectError"), Response(0, "ReadTimeout")}

RECURSIVE Scripts(_)
Scripts(n) ==
    IF n = 0 THEN {<<>>}
    ELSE { Append(s, r) : s \in Scripts(n - 1), r \in Responses }

\* A public call (get_ohlc) or a private one (add_order on a client that is
\* not dry-run), with max_attempts from 0 to MaxAttempts.
InitClient ==
    /\ IdleExec
    /\ vcall = NoCall
    /\ scall = NoCall
    /\ \E client \in Clients : \E private \in BOOLEAN :
       \E max \in 0..MaxAttempts : \E script \in Scripts(max) :
         rcall = [called |-> FALSE, client |-> client, private |-> private,
                  max |-> max, script |-> script, res |-> NoNet]
    /\ IdleAddOrder
    /\ IdleSched
    /\ IdleShared
    /\ pcall = NoCall
    /\ IdleAlerts

Request ==
    /\ ~rcall.called
    /\ rcall' = [rcall EXCEPT !.called = TRUE,
                              !.res = _request(rcall.client, rcall.private,
                                               rcall.max, rcall.script)]
    /\ UNCHANGED <<execVars, vcall, scall, aoVars, schedVars, sharedVars, pcall, alertVars>>

NextClient == Request

SpecClient == InitClient /\ [][NextClient]_vars

(***************************************************************************)
(* KrakenClient.add_order called repeatedly on one client while time       *)
(* passes.                                                                 *)
(***************************************************************************)
\* Largest number of add_order calls, and latest clock reading, explored.
MaxAddOrders == 2
MaxClock == 2

\* The dict handed to add_order: the one of the dry-run test, another
\* order, an empty one, and one in which the caller set the nonce.
OrderPayloads ==
    {[pair |-> "XXBTZEUR", type |-> "buy"], [pair |-> "XETHZEUR", type |-> "sell"],
     [pair |-> "", type |-> ""],
     [pair |-> "XXBTZEUR", type |-> "buy", nonce |-> 1]}

InitAddOrder ==
    /\ IdleExec
    /\ vcall = NoCall
    /\ scall = NoCall
    /\ rcall = NoCall
    /\ kc \in Clients
    /\ clock = 0
    /\ alog = <<>>
    /\ IdleSched
    /\ IdleShared
    /\ pcall = NoCall
    /\ IdleAlerts

\* One add_order call.  The transport's script is drawn only where the call
\* can send requests.
AddOrder ==
    /\ Len(alog) < MaxAddOrders
    /\ \E data \in OrderPayloads :
       \E script \in IF ~kc.dry_run /\ kc.key THEN SubmitScripts
                     ELSE {<<Ok200, Ok200, Ok200>>} :
         alog' = Append(alog, [data |-> data, now |-> clock,
                               nonce |-> add_order_nonce(kc, data, clock),
                               res |-> add_order(kc, data, script, clock)])
    /\ UNCHANGED <<execVars, vcall, scall, rcall, kc, clock, schedVars, sharedVars, pcall, alertVars>>

\* A millisecond passes.
Tick ==
    /\ clock < MaxClock
    /\ clock' = clock + 1
    /\ UNCHANGED <<execVars, vcall, scall, rcall, kc, alog, schedVars, sharedVars, pcall, alertVars>>

NextAddOrder == AddOrder \/ Tick

SpecAddOrder == InitAddOrder /\ [][NextAddOrder]_vars

(***************************************************************************)
(* KrakenClient._request step by step: the preparation of the headers and  *)
(* the body, then each attempt and each sleep of the retry loop, while the *)
(* clock (milliseconds) advances.  kc is the client, rcall the frame of    *)
(* the call.                                                               *)
(***************************************************************************)
\* The fields of a posted dict, in insertion order; setdefault appends the
\* nonce last.
FieldOrder == <<"pair", "type", "nonce">>

\* The dict after data.setdefault("nonce", int(time.time() * 1000)).
with_nonce(data, now) ==
    [k \in DOMAIN data \cup {"nonce"} |->
        IF k = "nonce" THEN setdefault_nonce(data, now) ELSE data[k]]

\* urlencode(data, doseq=True): the name=value pairs in the dict's order,
\* every value as text.
RECURSIVE urlencode_from(_, _)
urlencode_from(data, i) ==
    IF i > Len(FieldOrder) THEN <<>>
    ELSE LET k == FieldOrder[i] IN
         (IF k \in DOMAIN data
          THEN << <<k, IF k = "nonce" THEN FmtInt(data[k]) ELSE data[k]>> >>
          ELSE <<>>) \o urlencode_from(data, i + 1)

urlencode(data) == urlencode_from(data, 1)

\* _sign(path, data, secret): an HMAC is a value determined by what it is
\* computed over: the path, str(data["nonce"]) + urlencode(data), the secret.
_sign(path, data, secret) ==
    [path |-> path, nonce |-> FmtInt(data.nonce), postdata |-> urlencode(data),
     secret |-> secret]

\* body: bytes | None = None
NoBody == <<>>

PublicHeaders == [API_Key |-> FALSE, API_Sign |-> NoBody]

\* The frame of a _request call before its first statement.
RequestFrame(private, data, max) ==
    [called |-> FALSE, pc |-> "start", private |-> private, data |-> data,
     max |-> max, attempt |-> 1, backoff |-> 1, last_exc |-> NoExc,
     headers |-> PublicHeaders, body |-> NoBody, sleeps |-> <<>>,
     sent |-> <<>>, res |-> NoNet]

\* Mutant: the request is signed again, with a fresh nonce, when it is sent.
Transmit_resigned(req, now) ==
    IF ~req.private THEN [headers |-> req.headers, content |-> req.body, at |-> now]
    ELSE LET data == [req.data EXCEPT !.nonce = now] IN
         [headers |-> [req.headers EXCEPT
                          !.API_Sign = _sign("/0/private/AddOrder", data, TRUE)],
          content |-> urlencode(data), at |-> now]

\* self._client.request(method, url, params=..., content=body,
\* headers=headers) at time now: what goes on the wire.
Transmit(req, now) ==
    [headers |-> req.headers, content |-> req.body, at |-> now]

InitRequestSteps ==
    /\ IdleExec
    /\ vcall = NoCall
    /\ scall = NoCall
    /\ \E private \in BOOLEAN : \E data \in OrderPayloads :
       \E max \in 0..MaxAttempts :
         rcall = RequestFrame(private, data, max)
    /\ kc \in Clients
    /\ clock = 0
    /\ alog = <<>>
    /\ IdleSched
    /\ IdleShared
    /\ pcall = NoCall
    /\ IdleAlerts

\* Lines 190-206: the credentials check, the nonce, the signature and the
\* body; an empty range(1, max_attempts + 1) ends the call at once.
Prepare ==
    /\ rcall.pc = "start"
    /\ rcall' =
         IF rcall.private /\ (~kc.key \/ ~kc.secret)
         THEN [rcall EXCEPT !.pc = "done", !.called = TRUE,
                  !.res = Outcome(Raise("AuthError",
                                        "Kraken API key/secret not configured", 0),
                                  0, <<>>)]
         ELSE LET data == IF rcall.private THEN with_nonce(rcall.data, clock)
                          ELSE rcall.data
                  prepared ==
                      IF rcall.private
                      THEN [rcall EXCEPT
                              !.data = data,
                              !.headers = [API_Key |-> kc.key,
                                           API_Sign |-> _sign("/0/private/AddOrder",
                                                              data, kc.secret)],
                              !.body = urlencode(data)]
                      ELSE rcall
              IN  IF rcall.max = 0
                  THEN [prepared EXCEPT !.pc = "done", !.called = TRUE,
                          !.res = Outcome(Raise("ConnectivityError",
                                    "Network failure after retries (unknown error)", 0),
                                    0, <<>>)]
                  ELSE [prepared EXCEPT !.pc = "loop"]
    /\ UNCHANGED <<execVars, vcall, scall, kc, clock, alog, schedVars, sharedVars, pcall, alertVars>>

\* Lines 207-213: one attempt; the transport gives r.
SendAttempt ==
    /\ rcall.pc = "loop"
    /\ \E r \in Responses :
         LET res == Attempt(r)
             sent == Append(rcall.sent, Transmit(rcall, clock))
         IN  rcall' =
               IF ~Caught(res)
               THEN [rcall EXCEPT !.pc = "done", !.called = TRUE, !.sent = sent,
                        !.res = Outcome(res, rcall.attempt, rcall.sleeps)]
               ELSE IF rcall.attempt >= rcall.max
               THEN [rcall EXCEPT !.pc = "done", !.called = TRUE, !.sent = sent,
                        !.last_exc = LastExc(rcall.last_exc, res),
                        !.res = Outcome(RaiseFrom("ConnectivityError",
                                                  "Network failure after retries",
                                                  LastExc(rcall.last_exc, res)),
                                        rcall.attempt, rcall.sleeps)]
               ELSE [rcall EXCEPT !.pc = "sleep", !.sent = sent,
                        !.last_exc = LastExc(rcall.last_exc, res)]
    /\ UNCHANGED <<execVars, vcall, scall, kc, clock, alog, schedVars, sharedVars, pcall, alertVars>>

\* Lines 217-218: time.sleep(backoff); backoff *= 2.0.  A backoff unit is
\* half a second.
Sleep ==
    /\ rcall.pc = "sleep"
    /\ clock' = clock + 500 * rcall.backoff
    /\ rcall' = [rcall EXCEPT !.pc = "loop",
                              !.sleeps = Append(rcall.sleeps, rcall.backoff),
                              !.backoff = NextBackoff(rcall.backoff),
                              !.attempt = rcall.attempt + 1]
    /\ UNCHANGED <<execVars, vcall, scall, kc, alog, schedVars, sharedVars, pcall, alertVars>>

NextRequestSteps == Prepare \/ SendAttempt \/ Sleep \/ Tick

SpecRequestSteps == InitRequestSteps /\ [][NextRequestSteps]_vars

(***************************************************************************)
(* run_batch as a state machine: the calling thread, and one _run_one call *)
(* per symbol that the calling thread (max_workers <= 1) or the threads of *)
(* the pool execute step by step.                                          *)
(***************************************************************************)
\* Largest number of worker calls a batch can make:
\* Len(symbols) * (max_retries + 1).
MaxCalls == 4

\* The symbol lists of the scheduler tests, a list with a repeated symbol,
\* a single symbol and no symbol.
SymbolLists ==
    {<<>>, <<"BTC/EUR">>, <<"BTC/EUR", "ETH/EUR">>, <<"BTC/EUR", "BTC/EUR">>,
     <<"BTC/EUR", "ETH/EUR", "SOL/EUR">>}

\* psutil present with the default quotas or with the quotas of the tests
\* (100%, which no load exceeds), or psutil absent.
Environments ==
    {[psutil |-> TRUE, quotas |-> SystemQuotas(max_cpu_pct, max_ram_pct)],
     [psutil |-> TRUE, quotas |-> SystemQuotas(100, 100)],
     [psutil |-> FALSE, quotas |-> SystemQuotas(max_cpu_pct, max_ram_pct)]}

\* The machine's load at a quota check: at the default quotas, CPU above,
\* RAM above.
Loads == {Load(85, 85), Load(86, 10), Load(10, 86)}

\* What a call of the worker function does: it returns, or it raises.
WorkerOutcomes ==
    {NoError, Exc("OSError", "disk"), Exc("TimeoutError", "late"),
     Exc("ValueError", "bad"), Exc("KeyError", "pair"),
     Exc("SchedulerOverloadError", "busy")}

\* The run_batch calls explored; max_retries is not negative, and the
\* backoff base is varied where a retry, and so a sleep, can happen.
SchedulerInputs ==
    { in \in { [symbols |-> syms,
                cfg |-> SchedulerConfig(workers, env.quotas,
                                        RetryPolicy(retries, backoff)),
                psutil |-> env.psutil] :
                 syms \in SymbolLists, workers \in 0..3, env \in Environments,
                 retries \in 0..(MaxCalls - 1), backoff \in {base_backoff_s, 200} } :
        /\ Len(in.symbols) * (in.cfg.retry.max_retries + 1) <= MaxCalls
        /\ in.cfg.retry.base_backoff_s = base_backoff_s
              \/ in.cfg.retry.max_retries >= 1 }

InitScheduler ==
    /\ IdleExec
    /\ vcall = NoCall
    /\ scall = NoCall
    /\ rcall = NoCall
    /\ IdleAddOrder
    /\ IdleShared
    /\ pcall = NoCall
    /\ IdleAlerts
    /\ \E in \in SchedulerInputs :
         /\ symbols = in.symbols
         /\ cfg = in.cfg
         /\ psutil = in.psutil
    /\ jobs = [i \in 1..Len(symbols) |-> Job("unsubmitted")]
    /\ finished = <<>>
    /\ batch = NoBatch

TerminalPc == {"returned", "raised"}

\* The jobs a thread is executing.
Running == { i \in 1..Len(symbols) : jobs[i].pc \in {"check", "call"} }

\* run_batch: config.max_workers <= 1 chooses _run_batch_sequential, whose
\* loop over no symbol returns at once; otherwise _run_batch_parallel
\* creates the pool.
RunBatch ==
    /\ batch.pc = "idle"
    /\ batch' = [batch EXCEPT !.pc = IF cfg.max_workers <= 1
                                     THEN IF symbols = <<>> THEN "returned"
                                          ELSE "sequential"
                                     ELSE "submitting"]
    /\ UNCHANGED <<execVars, vcall, scall, rcall, aoVars, sharedVars, pcall, alertVars,
                   cfg, symbols, psutil, jobs, finished>>

\* executor.submit(_run_one, sym, ...) for the next symbol.
SubmitJob ==
    /\ batch.pc = "submitting"
    /\ batch.next <= Len(symbols)
    /\ jobs' = [jobs EXCEPT ![batch.next].pc = "pending"]
    /\ batch' = [batch EXCEPT !.next = batch.next + 1]
    /\ UNCHANGED <<execVars, vcall, scall, rcall, aoVars, sharedVars, pcall, alertVars,
                   cfg, symbols, psutil, finished>>

\* as_completed(futures) is called: the futures that are already done will
\* be yielded first, in no particular order.
AsCompleted ==
    /\ batch.pc = "submitting"
    /\ batch.next > Len(symbols)
    /\ batch' = [batch EXCEPT !.pc = "collecting",
                              !.early = { i \in 1..Len(symbols) :
                                            jobs[i].pc \in TerminalPc }]
    /\ UNCHANGED <<execVars, vcall, scall, rcall, aoVars, sharedVars, pcall, alertVars,
                   cfg, symbols, psutil, jobs, finished>>

\* Mutant: in sequential mode a job that raises is skipped and the loop
\* goes on.
StepJob_continues_after_raise(i, j) ==
    /\ jobs' = [jobs EXCEPT ![i] = j]
    /\ finished' = IF j.pc \in TerminalPc THEN Append(finished, i) ELSE finished
    /\ batch' = IF batch.pc # "sequential" \/ j.pc \notin TerminalPc THEN batch
                ELSE [batch EXCEPT !.results = Append(batch.results, j.ret.result),
                                   !.pc = IF i = Len(symbols) THEN "returned"
                                          ELSE "sequential"]
    /\ UNCHANGED <<execVars, vcall, scall, rcall, aoVars, sharedVars, pcall, alertVars, cfg, symbols, psutil>>

\* Job i moves to j.  When that ends the job it is recorded as finished; in
\* sequential mode the calling thread is the one that ran it, and appends
\* the result and goes on to the next symbol (or returns after the last),
\* or lets the exception out of run_batch.
StepJob(i, j) ==
    /\ jobs' = [jobs EXCEPT ![i] = j]
    /\ finished' = IF j.pc \in TerminalPc THEN Append(finished, i) ELSE finished
    /\ batch' = IF batch.pc # "sequential" \/ j.pc \notin TerminalPc THEN batch
                ELSE IF j.pc = "returned"
                THEN [batch EXCEPT !.results = Append(batch.results, j.ret.result),
                                   !.pc = IF i = Len(symbols) THEN "returned"
                                          ELSE "sequential"]
                ELSE [batch EXCEPT !.pc = "raised", !.exc = j.ret.exc]
    /\ UNCHANGED <<execVars, vcall, scall, rcall, aoVars, sharedVars, pcall, alertVars, cfg, symbols, psutil>>

\* Mutant: in sequential mode a job starts without waiting for its turn.
StartJob_any_order(i) ==
    /\ \/ /\ batch.pc = "sequential"
          /\ jobs[i].pc = "unsubmitted"
       \/ /\ jobs[i].pc = "pending"
          /\ \A j \in 1..(i - 1) : jobs[j].pc # "pending"
          /\ Cardinality(Running) < cfg.max_workers
    /\ StepJob(i, _run_one_start(jobs[i], symbols[i], cfg.retry))

\* Mutant: the pool starts a pending job whether or not a thread is free.
StartJob_unbounded(i) ==
    /\ \/ /\ batch.pc = "sequential"
          /\ jobs[i].pc = "unsubmitted"
          /\ i = Len(batch.results) + 1
       \/ /\ jobs[i].pc = "pending"
          /\ \A j \in 1..(i - 1) : jobs[j].pc # "pending"
    /\ StepJob(i, _run_one_start(jobs[i], symbols[i], cfg.retry))

\* _run_one(symbols[i], ...) starts: in sequential mode when the calling
\* thread reaches symbol i, in the pool when a thread is free, in the order
\* of submission.
StartJob(i) ==
    /\ \/ /\ batch.pc = "sequential"
          /\ jobs[i].pc = "unsubmitted"
          /\ i = Len(batch.results) + 1
       \/ /\ jobs[i].pc = "pending"
          /\ \A j \in 1..(i - 1) : jobs[j].pc # "pending"
          /\ Cardinality(Running) < cfg.max_workers
    /\ StepJob(i, _run_one_start(jobs[i], symbols[i], cfg.retry))

\* The quota check at the top of an iteration of job i.
CheckQuota(i) ==
    /\ jobs[i].pc = "check"
    /\ \E load \in Loads :
         StepJob(i, _run_one_check(jobs[i], cfg.quotas, psutil, load))

\* fn(symbol) is called in job i, and what follows in that iteration.
CallWorker(i) ==
    /\ jobs[i].pc = "call"
    /\ \E e \in WorkerOutcomes :
         StepJob(i, _run_one_call(jobs[i], symbols[i], cfg.retry, e))

\* The futures as_completed can yield next: those that were done when it
\* was called, in any order, then the others in the order they finish.
NextYield ==
    IF batch.early \ batch.yielded # {} THEN batch.early \ batch.yielded
    ELSE { finished[n] : n \in { m \in 1..Len(finished) :
                                   /\ finished[m] \notin batch.yielded
                                   /\ \A l \in 1..(m - 1) :
                                          finished[l] \in batch.yielded } }

\* One iteration of the for loop over as_completed: results.append of
\* future.result(), which raises what the job raised.
Collect ==
    /\ batch.pc = "collecting"
    /\ \E i \in NextYield :
         batch' = IF jobs[i].pc = "returned"
                  THEN [batch EXCEPT !.yielded = batch.yielded \cup {i},
                                     !.results = Append(batch.results,
                                                        jobs[i].ret.result)]
                  ELSE [batch EXCEPT !.yielded = batch.yielded \cup {i},
                                     !.pc = "unwinding",
                                     !.exc = jobs[i].ret.exc]
    /\ UNCHANGED <<execVars, vcall, scall, rcall, aoVars, sharedVars, pcall, alertVars,
                   cfg, symbols, psutil, jobs, finished>>

\* Mutant: the pool is shut down without waiting for its jobs.
Shutdown_no_wait ==
    /\ \/ batch.pc = "collecting" /\ batch.yielded = 1..Len(symbols)
       \/ batch.pc = "unwinding"
    /\ batch' = [batch EXCEPT !.pc = IF batch.exc = NoError THEN "returned"
                                     ELSE "raised"]
    /\ UNCHANGED <<execVars, vcall, scall, rcall, aoVars, sharedVars, pcall, alertVars,
                   cfg, symbols, psutil, jobs, finished>>

\* The with block is left, after the loop or by an exception: the pool's
\* shutdown(wait=True) returns when every submitted job has ended, then
\* _run_batch_parallel returns the results or the exception goes on.
Shutdown ==
    /\ \/ batch.pc = "collecting" /\ batch.yielded = 1..Len(symbols)
       \/ batch.pc = "unwinding"
    /\ \A i \in 1..Len(symbols) : jobs[i].pc \in TerminalPc
    /\ batch' = [batch EXCEPT !.pc = IF batch.exc = NoError THEN "returned"
                                     ELSE "raised"]
    /\ UNCHANGED <<execVars, vcall, scall, rcall, aoVars, sharedVars, pcall, alertVars,
                   cfg, symbols, psutil, jobs, finished>>

NextScheduler ==
    \/ RunBatch
    \/ SubmitJob
    \/ AsCompleted
    \/ \E i \in 1..Len(symbols) : StartJob(i)
    \/ \E i \in 1..Len(symbols) : CheckQuota(i)
    \/ \E i \in 1..Len(symbols) : CallWorker(i)
    \/ Collect
    \/ Shutdown

SpecScheduler == InitScheduler /\ [][NextScheduler]_vars

\* The positions a job can have in a symbol list.
JobIds == UNION { 1..Len(syms) : syms \in SymbolLists }

\* The steps of job i, where there is a job i.
JobStep(i) ==
    /\ i <= Len(symbols)
    /\ StartJob(i) \/ CheckQuota(i) \/ CallWorker(i)

\* The scheduler under fair scheduling: the thread that called run_batch
\* keeps running while it has a step to take, and so does every thread of
\* the pool; a worker call and a quota sample that have begun end.
SpecSchedulerFair ==
    /\ InitScheduler
    /\ [][NextScheduler]_vars
    /\ WF_vars(RunBatch \/ SubmitJob \/ AsCompleted \/ Collect \/ Shutdown)
    /\ \A i \in JobIds : WF_vars(JobStep(i))

(***************************************************************************)
(* SharedState as a state machine: threads call update_exposure, can_trade *)
(* and record_drawdown on one object, each call a sequence of steps that   *)
(* the interpreter may interleave with the other threads' steps.           *)
(***************************************************************************)
\* Number of threads, and of method calls they make in all.
Threads == 2
MaxOps == 3

ThreadIds == 1..Threads

\* The equity the object is constructed with; nothing forbids zero.
SharedEquities == {0, 1000}

\* The calls a thread can make: exposures of 0.3 and 0.6 on two symbols,
\* the default threshold 0.2 and 0.5, an equity below and above the start.
SharedCalls ==
    { Call("acquire", "update_exposure", s, e) :
        s \in {"BTC/EUR", "ETH/EUR"}, e \in {30, 60} }
    \cup { Call("acquire", "can_trade", "BTC/EUR", th) : th \in {20, 50} }
    \cup { Call("acquire", "record_drawdown", "", eq) : eq \in {900, 1100} }

InitShared ==
    /\ IdleExec
    /\ vcall = NoCall
    /\ scall = NoCall
    /\ rcall = NoCall
    /\ IdleAddOrder
    /\ IdleSched
    /\ \E ge \in SharedEquities : ss = SharedState(ge)
    /\ thr = [t \in ThreadIds |-> NoThreadCall]
    /\ writes = <<>>
    /\ ncalls = 0
    /\ pcall = NoCall
    /\ IdleAlerts

otherThanShared == <<execVars, vcall, scall, rcall, aoVars, schedVars, pcall, alertVars>>

\* A thread calls a method: it reaches the method's `with self._lock`.
BeginCall(t) ==
    /\ thr[t].pc = "idle"
    /\ ncalls < MaxOps
    /\ \E c \in SharedCalls : thr' = [thr EXCEPT ![t] = c]
    /\ ncalls' = ncalls + 1
    /\ UNCHANGED <<ss, writes, otherThanShared>>

FirstStep(op) ==
    CASE op = "update_exposure" -> "set"
      [] op = "can_trade" -> "read"
      [] op = "record_drawdown" -> "draw"

\* Lock.__enter__ that does not wait for the lock to be free.
Acquire_without_waiting(t) ==
    /\ thr[t].pc = "acquire"
    /\ ss' = [ss EXCEPT !._lock = TRUE]
    /\ thr' = [thr EXCEPT ![t].pc = FirstStep(thr[t].op)]
    /\ UNCHANGED <<writes, ncalls, otherThanShared>>

\* Lock.__enter__: the thread waits until the lock is free and takes it.
Acquire(t) ==
    /\ thr[t].pc = "acquire"
    /\ ~ss._lock
    /\ ss' = [ss EXCEPT !._lock = TRUE]
    /\ thr' = [thr EXCEPT ![t].pc = FirstStep(thr[t].op)]
    /\ UNCHANGED <<writes, ncalls, otherThanShared>>

\* update_exposure: the write of the map; writes keeps the order of the
\* writes.
SetExposure(t) ==
    /\ thr[t].pc = "set"
    /\ ss' = update_exposure_set(ss, thr[t].symbol, thr[t].arg)
    /\ writes' = Append(writes, <<t, thr[t].symbol, thr[t].arg>>)
    /\ thr' = [thr EXCEPT ![t].pc = "sum"]
    /\ UNCHANGED <<ncalls, otherThanShared>>

\* update_exposure: the sum over the map times the equity is evaluated.
SumExposure(t) ==
    /\ thr[t].pc = "sum"
    /\ thr' = [thr EXCEPT ![t].pc = "store", ![t].tmp = update_exposure_sum(ss)]
    /\ UNCHANGED <<ss, writes, ncalls, otherThanShared>>

\* update_exposure: equity_used is assigned, the lock released, None
\* returned.
StoreEquityUsed(t) ==
    /\ thr[t].pc = "store"
    /\ ss' = [update_exposure_store(ss, thr[t].tmp) EXCEPT !._lock = FALSE]
    /\ thr' = [thr EXCEPT ![t].pc = "idle", ![t].tmp = 0, ![t].ret = NoReturn]
    /\ UNCHANGED <<writes, ncalls, otherThanShared>>

\* can_trade: body and release.
CanTrade(t) ==
    /\ thr[t].pc = "read"
    /\ ss' = [ss EXCEPT !._lock = FALSE]
    /\ thr' = [thr EXCEPT ![t].pc = "idle",
                          ![t].ret = [exc |-> "none",
                                      value |-> IF can_trade(ss, thr[t].arg)
                                                THEN "True" ELSE "False"]]
    /\ UNCHANGED <<writes, ncalls, otherThanShared>>

\* record_drawdown: body and release; the with statement releases the lock
\* when the body raises.
RecordDrawdown(t) ==
    /\ thr[t].pc = "draw"
    /\ LET r == record_drawdown(ss, thr[t].arg)
       IN /\ ss' = [r.self EXCEPT !._lock = FALSE]
          /\ thr' = [thr EXCEPT ![t].pc = "idle",
                                ![t].ret = [exc |-> r.exc, value |-> "None"]]
    /\ UNCHANGED <<writes, ncalls, otherThanShared>>

NextShared ==
    \E t \in ThreadIds :
        \/ BeginCall(t)
        \/ Acquire(t)
        \/ SetExposure(t)
        \/ SumExposure(t)
        \/ StoreEquityUsed(t)
        \/ CanTrade(t)
        \/ RecordDrawdown(t)

SpecShared == InitShared /\ [][NextShared]_vars

(***************************************************************************)
(* propose_order as a function of its inputs.                              *)
(***************************************************************************)
\* The configuration of tests/test_risk_manager.py (default limits, risk
\* per trade 0.5%, min notional 10) with quantities of 2 or QtyDigits
\* decimals; the markets and equities of its two propose_order tests, an
\* empty account, a k_atr of 0; exposures and order rates below, at and
\* above the limits.
ProposeInputs ==
    { in \in { [cfg |-> AppConfig(ExchangeMeta(dec, 1, 10), DefaultLimits, 5),
                market |-> MarketSnapshot(100, atr, k_atr),
                risk |-> RiskContext(equity, cur, olm)] :
                 dec \in {2, QtyDigits}, atr \in {1, 5}, k_atr \in {0, 2},
                 equity \in {0, 1000, 10000}, cur \in {0, 2500, 4500, 5000, 5001},
                 olm \in {0, 30, 31} } :
        \* the exposure added by the order is a whole number of hundredths
        LET qty == compute_position_size(
                       SizingParams(in.risk.equity, in.market.price, in.market.atr,
                                    in.cfg.risk_per_trade_pct, in.market.k_atr,
                                    in.cfg.exchange.min_qty,
                                    in.cfg.exchange.min_notional,
                                    in.cfg.exchange.qty_decimals))
        IN  in.risk.equity > 0 =>
              (qty.qty * in.market.price * 10)
                 % (in.risk.equity * Pow10(QtyDigits - 3)) = 0 }

InitPropose ==
    /\ IdleExec
    /\ vcall = NoCall
    /\ scall = NoCall
    /\ rcall = NoCall
    /\ IdleAddOrder
    /\ IdleSched
    /\ IdleShared
    /\ IdleAlerts
    /\ \E in \in ProposeInputs :
         pcall = [called |-> FALSE, in |-> in, res |-> Proposal("none", NoMsg, 0, 0)]

Propose ==
    /\ ~pcall.called
    /\ pcall' = [pcall EXCEPT !.called = TRUE,
                              !.res = propose_order(pcall.in.cfg, pcall.in.market,
                                                    pcall.in.risk)]
    /\ UNCHANGED <<execVars, vcall, scall, rcall, aoVars, schedVars, sharedVars, alertVars>>

NextPropose == Propose

SpecPropose == InitPropose /\ [][NextPropose]_vars

(***************************************************************************)
(* The alert sinks as a state machine: an OverloadGuard on which tick is   *)
(* called cycle after cycle, and the notification step of a worker.        *)
(***************************************************************************)
\* Number of tick calls.
MaxTicks == 3

\* Measures: idle, CPU above its threshold, RAM above, latency at its
\* threshold.
Snapshots ==
    {LoadSnapshot(0, 0, 0), LoadSnapshot(95, 10, 0), LoadSnapshot(10, 95, 0),
     LoadSnapshot(0, 0, 250)}

\* What alerter.send does: it returns, or the SMTP exchange fails.
AlertOutcomes ==
    {NoError, Exc("OSError", "connection refused"),
     Exc("SMTPException", "rejected"), Exc("ValueError", "address")}

\* The active pairs and the low-priority pairs of a guard's caller.
PairLists ==
    {[active |-> <<"BTC/EUR", "ETH/EUR", "SOL/EUR">>, low |-> <<"SOL/EUR">>],
     [active |-> <<"BTC/EUR", "ETH/EUR", "SOL/EUR">>, low |-> <<"ETH/EUR", "SOL/EUR">>],
     [active |-> <<"BTC/EUR", "ETH/EUR">>, low |-> <<"ADA/EUR">>],
     [active |-> <<"BTC/EUR">>, low |-> <<>>],
     [active |-> <<>>, low |-> <<"SOL/EUR">>]}

\* The worker's environment and --telegram flag.
Environs ==
    [TELEGRAM_BOT_TOKEN : {"", "123:abc"}, TELEGRAM_CHAT_ID : {"", "42"},
     DIA_TELEGRAM_DRY_RUN : {"1", "0", "true"}]

InitAlerts ==
    /\ IdleExec
    /\ vcall = NoCall
    /\ scall = NoCall
    /\ rcall = NoCall
    /\ IdleAddOrder
    /\ IdleSched
    /\ IdleShared
    /\ pcall = NoCall
    /\ \E th \in {DefaultThresholds, Thresholds(90, 90, 250, 1)} :
       \E pairs \in PairLists :
         og = [self |-> OverloadGuard(th), pairs |-> pairs, ticks |-> 0,
               e |-> NoError, last |-> NoTick]
    /\ \E enabled \in BOOLEAN : \E environ \in Environs :
         notif = [called |-> FALSE, enabled |-> enabled, environ |-> environ,
                  res |-> [exc |-> NoError, sent |-> FALSE]]

\* One monitoring cycle: tick on the caller's lists.  What alerter.send
\* does is drawn only where tick calls it.
Tick_guard ==
    /\ og.ticks < MaxTicks
    /\ \E snap \in Snapshots :
       \E e \in IF tick(og.self, og.pairs.active, og.pairs.low, snap, NoError).alerts = <<>>
                THEN {NoError} ELSE AlertOutcomes :
         LET r == tick(og.self, og.pairs.active, og.pairs.low, snap, e) IN
         og' = [og EXCEPT !.self = r.self, !.ticks = og.ticks + 1, !.e = e,
                          !.last = r]
    /\ UNCHANGED <<execVars, vcall, scall, rcall, aoVars, schedVars, sharedVars,
                   pcall, notif>>

\* The notification step of the orchestration worker.
Notify ==
    /\ ~notif.called
    /\ notif' = [notif EXCEPT !.called = TRUE,
                              !.res = send_trade_notification(notif.enabled,
                                                              notif.environ)]
    /\ UNCHANGED <<execVars, vcall, scall, rcall, aoVars, schedVars, sharedVars,
                   pcall, og>>

NextAlerts == Tick_guard \/ Notify

SpecAlerts == InitAlerts /\ [][NextAlerts]_vars

(***************************************************************************)
(* HealthMonitor used through its own methods: sample and evaluate called  *)
(* in any order on the monitor of a guard, and the guard's tick.  og.ticks *)
(* counts the calls, og.decision is what the last evaluate (alone or in a  *)
(* tick) returned and og.evaluated whether no sample was taken since.  A   *)
(* measurement cycle is a sample that is then evaluated; og.cycles is the  *)
(* number of consecutive cycles, up to the last, whose measure violated a  *)
(* threshold.                                                              *)
(***************************************************************************)
\* A measure that violates a threshold, as evaluate tests it.
Violates(s, th) ==
    \/ s.cpu_pct >= th.cpu_pct
    \/ s.ram_pct >= th.ram_pct
    \/ s.latency_ms >= th.latency_ms

InitMonitor ==
    /\ IdleExec
    /\ vcall = NoCall
    /\ scall = NoCall
    /\ rcall = NoCall
    /\ IdleAddOrder
    /\ IdleSched
    /\ IdleShared
    /\ pcall = NoCall
    /\ \E th \in {DefaultThresholds, Thresholds(90, 90, 250, 2),
                  Thresholds(90, 90, 250, 1)} :
       \E pairs \in PairLists :
         og = [self |-> OverloadGuard(th), pairs |-> pairs, ticks |-> 0,
               e |-> NoError, last |-> NoTick,
               decision |-> OverloadDecision(FALSE, <<>>, 0),
               evaluated |-> FALSE, cycles |-> 0]
    /\ notif = NoCall

\* hm.sample(latency_ms) called by itself.
Sample ==
    /\ og.ticks < MaxTicks
    /\ \E snap \in Snapshots :
         og' = [og EXCEPT !.self.hm = sample(og.self.hm, snap),
                          !.ticks = og.ticks + 1, !.evaluated = FALSE]
    /\ UNCHANGED <<execVars, vcall, scall, rcall, aoVars, schedVars, sharedVars,
                   pcall, notif>>

\* hm.evaluate(active_pairs, low_priority) called by itself.
Evaluate ==
    /\ og.ticks < MaxTicks
    /\ LET ev == evaluate(og.self.hm, og.pairs.active, og.pairs.low) IN
       og' = [og EXCEPT !.self.hm = ev.self, !.ticks = og.ticks + 1,
                        !.decision = ev.decision,
                        !.evaluated = (og.self.hm._history # <<>>),
                        !.cycles =
                            IF og.evaluated \/ og.self.hm._history = <<>>
                            THEN og.cycles
                            ELSE IF Violates(og.self.hm._history[
                                                Len(og.self.hm._history)],
                                             og.self.hm.th)
                            THEN og.cycles + 1 ELSE 0]
    /\ UNCHANGED <<execVars, vcall, scall, rcall, aoVars, schedVars, sharedVars,
                   pcall, notif>>

\* OverloadGuard.tick on the caller's lists; alerter.send returns or fails.
GuardTick ==
    /\ og.ticks < MaxTicks
    /\ \E snap \in Snapshots :
       \E e \in {NoError, Exc("OSError", "connection refused")} :
         LET r == tick(og.self, og.pairs.active, og.pairs.low, snap, e) IN
         og' = [og EXCEPT !.self = r.self, !.ticks = og.ticks + 1, !.e = e,
                          !.last = r,
                          !.decision =
                              evaluate(sample(og.self.hm, snap),
                                       og.pairs.active, og.pairs.low).decision,
                          !.evaluated = TRUE,
                          !.cycles = IF Violates(snap, og.self.hm.th)
                                     THEN og.cycles + 1 ELSE 0]
    /\ UNCHANGED <<execVars, vcall, scall, rcall, aoVars, schedVars, sharedVars,
                   pcall, notif>>

NextMonitor == Sample \/ Evaluate \/ GuardTick

SpecMonitor == InitMonitor /\ [][NextMonitor]_vars

(***************************************************************************)
(* Properties                                                              *)
(***************************************************************************)
\* C1: whenever the pre-trade validation of a submission fails, in any mode
\* and for any intent, Executor.submit returns a SubmittedOrder with status
\* 'rejected' whose reason is the validator's message; it hands nothing to
\* client.add_order, sends no request, shows no confirmation prompt and lets
\* no exception escape.
C1_RiskRejectionIsData ==
    last.called =>
        LET chk == pre_trade_checks(last.intent, ex.limits, Equity, ex.min_notional) IN
        ~chk.ok =>
            /\ last.res.exc = "none"
            /\ last.res.order.status = "rejected"
            /\ last.res.order.reason = chk.msg
            /\ last.res.order.reason # NoMsg
            /\ last.res.payloads = <<>>
            /\ last.res.requests = 0
            /\ ~last.res.prompted

\* A live executor that asks for confirmation has rejected an intent whose
\* projected exposure is over the limit.
C1_Witness ==
    /\ last.called
    /\ ex.mode = "live"
    /\ ex.require_interactive_confirm
    /\ last.res.order.status = "rejected"
    /\ last.res.order.reason.metric = "max_exposure_pct"

\* C2: a submission made while the caller's portfolio metrics violate a
\* configured limit is returned 'rejected' and reaches neither
\* client.add_order nor the network, whatever the mode.
C2_ViolatedLimitAlwaysBlocks ==
    (last.called /\ ~validate_order(ex.limits, last.metrics).ok) =>
        /\ last.res.exc = "none"
        /\ last.res.order.status = "rejected"
        /\ last.res.payloads = <<>>
        /\ last.res.requests = 0

\* Some metric of p is strictly over its limit in l.
Exceeds(l, p) ==
    \/ p.projected_exposure_pct > l.max_exposure_pct
    \/ p.daily_loss_pct > l.max_daily_loss_pct
    \/ p.drawdown_pct > l.max_drawdown_pct
    \/ p.orders_last_min > l.max_orders_per_min

\* C3: validate_order raises RiskLimitExceededError if and only if one of
\* the four metrics is strictly over its limit; a metric equal to its limit
\* passes and current_exposure_pct is not looked at.
C3_RejectsIffSomeLimitExceeded ==
    vcall.called =>
        /\ (vcall.res.exc = "RiskLimitExceededError") <=> Exceeds(vcall.limits, vcall.params)
        /\ vcall.res.ok <=> ~Exceeds(vcall.limits, vcall.params)

\* Every metric sits exactly on its limit, the current exposure is over the
\* exposure limit, and the order passes.
C3_Witness ==
    /\ vcall.called
    /\ vcall.res.ok
    /\ vcall.params.projected_exposure_pct = vcall.limits.max_exposure_pct
    /\ vcall.params.daily_loss_pct = vcall.limits.max_daily_loss_pct
    /\ vcall.params.drawdown_pct = vcall.limits.max_drawdown_pct
    /\ vcall.params.orders_last_min = vcall.limits.max_orders_per_min
    /\ vcall.params.current_exposure_pct > vcall.limits.max_exposure_pct

\* The percentage a two-decimal rendering <<integer part, decimals>> reads as.
ReadPct(d) == d[1] * 100 + d[2]

IsPct(d) == Len(d) = 2 /\ d[2] \in 0..99

\* C4: a rejection reports exactly one violation, the first violated in the
\* order exposure, daily loss, drawdown, order rate; its message names that
\* metric, the measured value and the configured limit.
C4_FirstViolationReported ==
    (vcall.called /\ ~vcall.res.ok) =>
        LET l == vcall.limits
            p == vcall.params
            m == vcall.res.msg
        IN  IF p.projected_exposure_pct > l.max_exposure_pct
            THEN /\ m.metric = "max_exposure_pct"
                 /\ IsPct(m.value) /\ ReadPct(m.value) = p.projected_exposure_pct
                 /\ IsPct(m.limit) /\ ReadPct(m.limit) = l.max_exposure_pct
            ELSE IF p.daily_loss_pct > l.max_daily_loss_pct
            THEN /\ m.metric = "max_daily_loss_pct"
                 /\ IsPct(m.value) /\ ReadPct(m.value) = p.daily_loss_pct
                 /\ IsPct(m.limit) /\ ReadPct(m.limit) = l.max_daily_loss_pct
            ELSE IF p.drawdown_pct > l.max_drawdown_pct
            THEN /\ m.metric = "max_drawdown_pct"
                 /\ IsPct(m.value) /\ ReadPct(m.value) = p.drawdown_pct
                 /\ IsPct(m.limit) /\ ReadPct(m.limit) = l.max_drawdown_pct
            ELSE /\ m.metric = "max_orders_per_min"
                 /\ m.value = <<p.orders_last_min>>
                 /\ m.limit = <<l.max_orders_per_min>>

\* All four limits are violated at once and the exposure is what is reported.
C4_Witness ==
    /\ vcall.called
    /\ vcall.params.projected_exposure_pct > vcall.limits.max_exposure_pct
    /\ vcall.params.daily_loss_pct > vcall.limits.max_daily_loss_pct
    /\ vcall.params.drawdown_pct > vcall.limits.max_drawdown_pct
    /\ vcall.params.orders_last_min > vcall.limits.max_orders_per_min
    /\ vcall.res.msg.metric = "max_exposure_pct"

\* C5: for positive equity, price and ATR, the quantity that
\* compute_position_size returns is 0, or it is at least min_qty and its
\* notional (quantity * price) is at least min_notional.
C5_SizedQuantityMeetsMinimums ==
    (/\ scall.called
     /\ scall.params.equity > 0 /\ scall.params.price > 0 /\ scall.params.atr > 0
     /\ scall.res.exc = "none") =>
        \/ scall.res.qty = 0 /\ ~scall.res.small
        \/ /\ scall.res.qty * scall.params.price
                >= scall.params.min_notional * Pow10(QtyDigits)
           /\ scall.res.qty >= scall.params.min_qty

\* C6: in dry_run and paper mode, after any sequence of submit calls, no
\* call has been made to client.add_order and no HTTP request has been sent.
C6_NoNetworkInDryRunAndPaper ==
    ex.mode \in {"dry_run", "paper"} => addOrderCalls = 0 /\ httpRequests = 0

\* A paper executor has returned at least one accepted and one rejected order.
C6_Witness ==
    /\ ex.mode = "paper"
    /\ submits >= 2
    /\ accepted >= 1
    /\ rejected >= 1

\* The answers that read 'YES' once stripped of surrounding whitespace.
ConfirmingAnswers == {<<"Y", "E", "S">>, <<" ", "Y", "E", "S", "\t">>}

\* C7: in live mode with require_interactive_confirm, a payload reaches
\* client.add_order only after a prompt answered 'YES' (whitespace around it
\* aside); on any other answer the call ends with SystemExit before a
\* payload is built: no add_order call, no request, no SubmittedOrder.
C7_LiveNeedsYes ==
    (last.called /\ ex.mode = "live" /\ ex.require_interactive_confirm) =>
        /\ last.res.payloads # <<>> =>
               last.res.prompted /\ last.answer \in ConfirmingAnswers
        /\ (last.res.prompted /\ last.answer \notin ConfirmingAnswers) =>
               /\ last.res.exc = "SystemExit"
               /\ last.res.payloads = <<>>
               /\ last.res.requests = 0
               /\ last.res.order = NoOrder
        /\ addOrderCalls <= prompts

\* A first submission was confirmed and handed to the client, a second one
\* was answered 'yes' in lower case and aborted.
C7_Witness ==
    /\ ex.mode = "live"
    /\ ex.require_interactive_confirm
    /\ prompts = 2
    /\ addOrderCalls = 1
    /\ last.called
    /\ last.answer = <<"y", "e", "s">>
    /\ last.res.exc = "SystemExit"

\* A connectivity failure: a transport error or an HTTP status 500-599.
ConnFailure(r) == r.status = 0 \/ (500 <= r.status /\ r.status <= 599)

\* The call c gets past the credential check.
PassedCredentials(c) == ~c.private \/ (c.client.key /\ c.client.secret)

\* The k-th entry of the script is received by the call c: every earlier
\* one was a connectivity failure.
Received(c, k) ==
    /\ PassedCredentials(c)
    /\ k \in 1..c.max
    /\ \A j \in 1..(k - 1) : ConnFailure(c.script[j])

\* The failure that ends a call on receiving r without a retry, if any.
Terminal(r) ==
    IF r.status = 429 THEN "RateLimitError"
    ELSE IF r.status \in {401, 403} THEN "AuthError"
    ELSE IF r.status = 200 /\ r.body = "dict_err" THEN "OrderRejectedError"
    ELSE "none"

\* C8: only connectivity failures are retried.  A 429, a 401 or 403, or a
\* 200 payload with a non-empty error field, received on any attempt, ends
\* the call on that attempt with RateLimitError, AuthError or
\* OrderRejectedError: no further request and no further sleep follow.
C8_OnlyConnectivityRetried ==
    rcall.called =>
        /\ \A k \in 1..rcall.max :
             (Received(rcall, k) /\ Terminal(rcall.script[k]) # "none") =>
                 /\ rcall.res.exc = Terminal(rcall.script[k])
                 /\ rcall.res.requests = k
                 /\ Len(rcall.res.sleeps) = k - 1
        /\ \A j \in 1..(rcall.res.requests - 1) : ConnFailure(rcall.script[j])
        /\ Len(rcall.res.sleeps) <= rcall.res.requests

\* Two connectivity failures, then a 429 on the third attempt.
C8_Witness ==
    /\ rcall.called
    /\ rcall.max = 3
    /\ rcall.script[1].status = 502
    /\ rcall.script[2].status = 0
    /\ rcall.script[3].status = 429
    /\ rcall.res.exc = "RateLimitError"
    /\ rcall.res.requests = 3

\* C9: a call sends at most max_attempts requests; when every attempt ends
\* in a connectivity failure it raises ConnectivityError, whose message
\* wraps the failure of the final attempt, and returns no payload.
C9_ExhaustedRetriesWrapLastCause ==
    rcall.called =>
        /\ rcall.res.requests <= rcall.max
        /\ (/\ PassedCredentials(rcall)
            /\ rcall.max >= 1
            /\ \A k \in 1..rcall.max : ConnFailure(rcall.script[k])) =>
               /\ rcall.res.exc = "ConnectivityError"
               /\ rcall.res.payload = "none"
               /\ rcall.res.requests = rcall.max
               /\ LET f == rcall.script[rcall.max] IN
                  IF f.status = 0
                  THEN rcall.res.cause.exc = "HTTPError" /\ rcall.res.cause.text = f.body
                  ELSE /\ rcall.res.cause.exc = "ConnectivityError"
                       /\ rcall.res.cause.code = f.status

\* Three attempts fail differently: a 500, a 502, then a read timeout, which
\* is the cause reported.
C9_Witness ==
    /\ rcall.called
    /\ rcall.max = 3
    /\ rcall.script[1].status = 500
    /\ rcall.script[2].status = 502
    /\ rcall.script[3] = Response(0, "ReadTimeout")
    /\ rcall.res.exc = "ConnectivityError"
    /\ rcall.res.cause.text = "ReadTimeout"

\* C10: every response is classified into a success payload or one of the
\* four typed failures (429 RateLimitError, 401/403 AuthError, 500-599
\* ConnectivityError, a non-empty error field in a 200 payload
\* OrderRejectedError), so _request raises nothing outside these four types,
\* also for other 4xx statuses and for bodies that are not valid JSON.
C10_EveryResponseClassified ==
    rcall.called =>
        /\ rcall.res.exc \in {"none", "RateLimitError", "AuthError",
                              "ConnectivityError", "OrderRejectedError"}
        /\ rcall.res.requests >= 1 =>
               LET r == rcall.script[rcall.res.requests] IN
               /\ r.status = 429 => rcall.res.exc = "RateLimitError"
               /\ r.status \in {401, 403} => rcall.res.exc = "AuthError"
               /\ ConnFailure(r) => rcall.res.exc = "ConnectivityError"
               /\ (r.status = 200 /\ r.body = "dict_err") =>
                      rcall.res.exc = "OrderRejectedError"
               /\ (r.status = 200 /\ r.body \in {"dict_ok", "list"}) =>
                      rcall.res.exc = "none"

\* C11: a response whose payload carries a non-empty top-level error field
\* is always a business rejection, whatever HTTP status it arrives with
\* (429, 401, 403 and 5xx included): the call that receives it ends on that
\* attempt with OrderRejectedError and sends no further request.
C11_ErrorArrayAlwaysRejected ==
    rcall.called =>
        \A k \in 1..rcall.max :
            (/\ Received(rcall, k)
             /\ rcall.script[k].status # 0
             /\ rcall.script[k].body = "dict_err"
             /\ \A j \in 1..(k - 1) : rcall.script[j].body # "dict_err") =>
                /\ rcall.res.exc = "OrderRejectedError"
                /\ rcall.res.requests = k

\* C12: on a client configured with dry_run = true, every add_order call,
\* whatever its payload, however many calls came before and whether or not
\* the client has API credentials, returns a payload holding one synthetic
\* txid (DIA-DRYRUN- followed by the time of the call) and sends no HTTP
\* request.
C12_DryRunAddOrderIsOffline ==
    kc.dry_run =>
        \A i \in 1..Len(alog) :
            LET c == alog[i] IN
            /\ c.res.exc = "none"
            /\ c.res.requests = 0
            /\ c.res.sleeps = <<>>
            /\ "txid" \in DOMAIN c.res.payload.result
            /\ Len(c.res.payload.result.txid) = 1
            /\ c.res.payload.result.txid[1].prefix = "DIA-DRYRUN-"
            /\ c.res.payload.result.txid[1].ms = FmtInt(c.now)

\* Two calls with different payloads at different times on a dry-run client
\* that has no credentials.
C12_Witness ==
    /\ kc.dry_run
    /\ ~kc.key
    /\ ~kc.secret
    /\ Len(alog) = 2
    /\ alog[1].data # alog[2].data
    /\ alog[1].now < alog[2].now
    /\ alog[2].res.requests = 0
    /\ alog[2].res.payload.result.txid[1].ms = FmtInt(alog[2].now)

\* The load is above the CPU quota or above the RAM quota.
OverQuota(load, quotas) ==
    load.cpu > quotas.max_cpu_pct \/ load.ram > quotas.max_ram_pct

\* C13: the quota check precedes every attempt of a job, the first
\* included, and when the machine's CPU or RAM load is above its quota at
\* that check the job raises SchedulerOverloadError at once: the worker is
\* not called on that attempt (it has been called once per earlier attempt
\* only), no sleep follows the failed check, and an overload at the first
\* check leaves one attempt and no worker call.
C13_OverloadRaisesAtOnce ==
    \A i \in 1..Len(symbols) :
        LET j == jobs[i] IN
        /\ j.pc \in {"call", "returned", "raised"} => j.checks = j.attempts
        /\ (j.pc \in {"call", "returned", "raised"} /\ j.load # NoLoad
              /\ OverQuota(j.load, cfg.quotas)) =>
               /\ j.pc = "raised"
               /\ j.ret.exc.type = "SchedulerOverloadError"
               /\ Len(j.calls) = j.attempts - 1
               /\ Len(j.sleeps) = j.attempts - 1
               /\ j.checks = 1 => (j.attempts = 1 /\ j.calls = <<>>)

\* C14: whatever exception type the worker raises, other than the overload,
\* the job does not raise it: it retries and ends as a JobResult with ok
\* false, and run_batch, sequential or parallel, lets no exception other
\* than the overload out.
C14_WorkerFailuresBecomeResults ==
    /\ \A i \in 1..Len(symbols) :
          LET j == jobs[i] IN
          /\ j.pc = "raised" => j.ret.exc.type = "SchedulerOverloadError"
          /\ (j.pc = "returned" /\ j.calls # <<>>
                /\ j.calls[Len(j.calls)] # NoError) => ~j.ret.result.ok
    /\ batch.pc = "raised" => batch.exc.type = "SchedulerOverloadError"

OnlyRetryableFailures(j) ==
    /\ j.calls # <<>>
    /\ \A n \in 1..Len(j.calls) : j.calls[n].type \in Retryable

\* C16: a job whose worker raises a retryable failure on every attempt
\* calls the worker max_retries + 1 times and no more; after the failure
\* of attempt k (counted from 0) it sleeps base_backoff_s * 2^k before
\* attempt k + 1, and does not sleep after the last attempt; it ends as
\* JobResult(ok = false, attempts = max_retries + 1) with the text of the
\* last failure, and does not end before that unless a quota check raises.
C16_ExhaustedRetriesBackOffAndFail ==
    \A i \in 1..Len(symbols) :
        LET j == jobs[i]
            mr == cfg.retry.max_retries
            n == Len(j.calls)
        IN  OnlyRetryableFailures(j) =>
              /\ n <= mr + 1
              /\ Len(j.sleeps) = (IF n <= mr THEN n ELSE mr)
              /\ \A k \in 0..(Len(j.sleeps) - 1) :
                    j.sleeps[k + 1] = cfg.retry.base_backoff_s * (2 ^ k)
              /\ n = mr + 1 =>
                    /\ j.pc = "returned"
                    /\ j.ret.result =
                         JobResult(symbols[i], FALSE, mr + 1, ErrText(j.calls[n]))
              /\ n < mr + 1 => j.pc \in {"check", "call", "raised"}
              /\ j.pc = "raised" => j.ret.exc = Exc("SchedulerOverloadError",
                                                    "System quotas exceeded")

\* Four failing attempts of one job with a base of 200 ms: sleeps of 200,
\* 400 and 800 ms, and the last failure, of another type than the one
\* before it, is the one reported.
C16_Witness ==
    /\ Len(symbols) = 1
    /\ cfg.retry = RetryPolicy(3, 200)
    /\ OnlyRetryableFailures(jobs[1])
    /\ Len(jobs[1].calls) = 4
    /\ jobs[1].calls[3].type # jobs[1].calls[4].type
    /\ jobs[1].sleeps = <<200, 400, 800>>
    /\ jobs[1].pc = "returned"
    /\ jobs[1].ret.result.error = ErrText(jobs[1].calls[4])
    /\ batch.pc = "returned"

\* C17: once the worker returns without raising on attempt n, the job has
\* ended with JobResult(ok = true, attempts = n, error = none) and the
\* worker is not called again for it (a success is always the job's last
\* call); and when no worker call fails and no quota check raises, the
\* batch returns one result per symbol, each with ok = true and
\* attempts = 1, whatever the number of symbols and max_workers.
C17_SuccessEndsTheJob ==
    /\ \A i \in 1..Len(symbols) :
          LET j == jobs[i] IN
          \A n \in 1..Len(j.calls) :
              j.calls[n] = NoError =>
                  /\ n = Len(j.calls)
                  /\ j.pc = "returned"
                  /\ j.ret.result = JobResult(symbols[i], TRUE, n, NoError)
    /\ (/\ batch.pc \in {"returned", "raised"}
        /\ \A i \in 1..Len(symbols) :
              /\ jobs[i].pc # "raised"
              /\ \A n \in 1..Len(jobs[i].calls) : jobs[i].calls[n] = NoError) =>
           /\ batch.pc = "returned"
           /\ Len(batch.results) = Len(symbols)
           /\ \A n \in 1..Len(batch.results) :
                 batch.results[n].ok /\ batch.results[n].attempts = 1

\* A parallel batch of two jobs has returned: the first job succeeded on
\* its second attempt, the second on its first.
C17_Witness ==
    /\ batch.pc = "returned"
    /\ cfg.max_workers = 2
    /\ Len(symbols) = 2
    /\ Len(batch.results) = 2
    /\ Len(jobs[1].calls) = 2
    /\ jobs[1].calls[2] = NoError
    /\ jobs[1].ret.result = JobResult(symbols[1], TRUE, 2, NoError)
    /\ jobs[2].ret.result = JobResult(symbols[2], TRUE, 1, NoError)

\* C18: with max_workers <= 1 the jobs run strictly one after another in
\* input order: a job has not started before the one before it has ended
\* (so at most one job runs at a time and the jobs end in input order), the
\* n-th result is the JobResult of the n-th symbol, and a batch that
\* returns has one result per symbol, in input order.
C18_SequentialKeepsInputOrder ==
    cfg.max_workers <= 1 =>
        /\ \A i \in 2..Len(symbols) :
              jobs[i].pc # "unsubmitted" => jobs[i - 1].pc \in TerminalPc
        /\ Cardinality(Running) <= 1
        /\ \A n \in 1..Len(finished) : finished[n] = n
        /\ Len(batch.results) <= Len(symbols)
        /\ \A n \in 1..Len(batch.results) :
              /\ jobs[n].pc = "returned"
              /\ batch.results[n] = jobs[n].ret.result
              /\ batch.results[n].symbol = symbols[n]
        /\ batch.pc = "returned" => Len(batch.results) = Len(symbols)

\* A sequential batch of two different symbols has returned: the first job
\* failed twice, the second succeeded, and the results are in that order.
C18_Witness ==
    /\ cfg.max_workers = 1
    /\ batch.pc = "returned"
    /\ Len(symbols) = 2
    /\ symbols[1] # symbols[2]
    /\ finished = <<1, 2>>
    /\ Len(jobs[1].calls) = 2
    /\ batch.results[1] = JobResult(symbols[1], FALSE, 2, ErrText(jobs[1].calls[2]))
    /\ batch.results[2] = JobResult(symbols[2], TRUE, 1, NoError)

\* C19: with max_workers > 1, a batch in which no job raises returns
\* exactly one JobResult per occurrence of a symbol in the input, repeated
\* symbols included, and the results are in the order in which the jobs
\* completed: the n-th result is that of the n-th job to complete.
C19_ParallelResultsInCompletionOrder ==
    (cfg.max_workers > 1 /\ batch.pc = "returned") =>
        /\ Len(batch.results) = Len(symbols)
        /\ Len(finished) = Len(symbols)
        /\ \A n \in 1..Len(batch.results) :
              batch.results[n] = jobs[finished[n]].ret.result

\* Job j ended by itself: it returned the result of its own last worker
\* call, or raised what its own worker call or its own quota check raised.
EndedByItself(j, symbol) ==
    \/ /\ j.pc = "returned"
       /\ j.calls # <<>>
       /\ j.ret.result.symbol = symbol
       /\ j.ret.result.attempts = Len(j.calls)
       /\ j.ret.result.ok = (j.calls[Len(j.calls)] = NoError)
    \/ /\ j.pc = "raised"
       /\ j.load = NoLoad
       /\ j.calls # <<>>
       /\ j.ret.exc = j.calls[Len(j.calls)]
    \/ /\ j.pc = "raised"
       /\ psutil
       /\ OverQuota(j.load, cfg.quotas)
       /\ j.ret.exc = Exc("SchedulerOverloadError", "System quotas exceeded")

\* C20: in parallel mode, once a job has raised SchedulerOverloadError the
\* batch does not return a result list, and run_batch lets the failure out
\* only after every other job of the batch has ended; each of those jobs
\* ended by itself, with its own result or its own failure, none was
\* cancelled or interrupted.
C20_OverloadWaitsForSiblings ==
    (/\ cfg.max_workers > 1
     /\ \E k \in 1..Len(symbols) :
           /\ jobs[k].pc = "raised"
           /\ jobs[k].ret.exc.type = "SchedulerOverloadError") =>
        /\ batch.pc # "returned"
        /\ \A i \in 1..Len(symbols) :
              jobs[i].pc \in TerminalPc => EndedByItself(jobs[i], symbols[i])
        /\ batch.pc = "raised" =>
              /\ \A i \in 1..Len(symbols) : jobs[i].pc \in TerminalPc
              /\ \E k \in 1..Len(symbols) :
                    jobs[k].pc = "raised" /\ batch.exc = jobs[k].ret.exc

\* The calling thread has received the overload of the first job, raised
\* at its first quota check, while the second job is in its second
\* attempt, about to call the worker.
C20_Witness ==
    /\ cfg.max_workers = 2
    /\ Len(symbols) = 2
    /\ batch.pc = "unwinding"
    /\ batch.exc = Exc("SchedulerOverloadError", "System quotas exceeded")
    /\ jobs[1].pc = "raised"
    /\ jobs[1].calls = <<>>
    /\ finished = <<1>>
    /\ jobs[2].pc = "call"
    /\ Len(jobs[2].calls) = 1

\* The threads inside a `with self._lock` block.
InsideLock == { t \in ThreadIds : thr[t].pc \in {"set", "sum", "store", "read", "draw"} }

\* The last value written for a symbol, in the order of the writes.
RECURSIVE LastWrite(_, _)
LastWrite(log, symbol) ==
    IF log = <<>> THEN 0
    ELSE IF log[Len(log)][2] = symbol THEN log[Len(log)][3]
    ELSE LastWrite(SubSeq(log, 1, Len(log) - 1), symbol)

WrittenSymbols == { writes[n][2] : n \in 1..Len(writes) }

\* C21: under any interleaving of update_exposure, can_trade and
\* record_drawdown calls, at most one thread is inside the lock, and in
\* every state where the lock is free equity_used is the sum of the
\* exposure map times global_equity and the map holds, for every symbol
\* written, the value of the last write: no update is lost.
C21_ExposureUpdatesAreAtomic ==
    /\ Cardinality(InsideLock) <= 1
    /\ ~ss._lock =>
         /\ ss.equity_used = sum_values(ss.exposure_by_symbol) * ss.global_equity
         /\ ss.exposure_by_symbol =
               { <<s, LastWrite(writes, s)>> : s \in WrittenSymbols }

\* Two threads have written different symbols, the aggregate is not zero,
\* the lock is free and a third call is waiting for it.
C21_Witness ==
    /\ ~ss._lock
    /\ \E m, n \in 1..Len(writes) :
          writes[m][1] # writes[n][1] /\ writes[m][2] # writes[n][2]
    /\ ss.equity_used > 0
    /\ \E t \in ThreadIds : thr[t].pc = "acquire"

\* C22: in live mode, when the exchange call made by submit fails, submit
\* does not raise: it returns a SubmittedOrder with status 'rejected' and a
\* reason, never 'accepted'.
C22_LiveFailureIsReturnedRejected ==
    (last.called /\ ex.mode = "live" /\ Len(last.res.payloads) = 1
       /\ last.res.error.exc # "none")
    => /\ last.res.exc = "none"
       /\ last.res.order.status = "rejected"
       /\ last.res.order.reason # NoMsg

\* C23: after any sequence of submissions in any mode, a SubmittedOrder
\* that submit returned with status 'rejected' carries a reason, and one
\* returned with status 'accepted' carries none.
C23_ReasonIffRejected ==
    (last.called /\ last.res.exc = "none")
    => /\ last.res.order.status \in {"accepted", "rejected"}
       /\ last.res.order.status = "rejected" <=> last.res.order.reason # NoMsg

\* An acceptance, then a rejection.
C23_Witness ==
    /\ submits = 2 /\ accepted = 1 /\ rejected = 1
    /\ last.res.order.status = "rejected"
    /\ last.res.order.reason # NoMsg

\* C24: compute_position_size returns 0 without raising whenever price, ATR
\* or equity is not positive, and also whenever k_atr * ATR is zero (k_atr
\* of 0 with a positive ATR): it never ends in a division error.
C24_DegenerateInputsSizeToZero ==
    (/\ scall.called
     /\ \/ scall.params.price <= 0
        \/ scall.params.atr <= 0
        \/ scall.params.equity <= 0
        \/ scall.params.k_atr * scall.params.atr = 0)
    => /\ scall.res.exc = "none"
       /\ scall.res.qty = 0
       /\ ~scall.res.small

\* C25: of any two private requests that add_order signs for one client, the
\* later carries the strictly greater nonce, also when both are made in the
\* same millisecond or the caller supplied a nonce.
C25_NonceStrictlyIncreases ==
    \A m, n \in 1..Len(alog) :
        (m < n /\ alog[m].nonce # NoNonce /\ alog[n].nonce # NoNonce)
        => alog[m].nonce < alog[n].nonce

\* The quantities, in units of 10^-QtyDigits, that compute_position_size
\* gives for an equity and a price, over the ATRs and sizing settings of
\* SizingInputs; it sizes no order when it gives 0.
SizedQuantities(equity, price) ==
    { compute_position_size(q).qty :
        q \in { z \in SizingInputs :
                  /\ z.equity = equity /\ z.price = price
                  /\ compute_position_size(z).exc = "none"
                  /\ compute_position_size(z).qty > 0 } }

\* C26: in live mode, the payload that submit hands to client.add_order
\* carries the validate flag, and for a limit order its volume is a quantity
\* of the position sizer for the equity and the price, whose notional
\* (volume * price) is at least min_notional: never the quantity the intent
\* came with.
C26_ForwardedOrderIsSizedAndValidated ==
    (last.called /\ ex.mode = "live" /\ Len(last.res.payloads) = 1)
    => LET payload == last.res.payloads[1] IN
       /\ payload.validate = "true"
       /\ payload.price # None =>
            /\ payload.volume * Pow10(QtyDigits)
                 \in SizedQuantities(Equity, payload.price)
            /\ payload.volume * payload.price >= ex.min_notional

C28_ProposalOnlyWithinLimits ==
    pcall.called =>
        /\ pcall.res.exc = "none" =>
             /\ pcall.in.risk.current_exposure_pct
                  + NotionalPct(pcall.res.qty * pcall.in.market.price,
                                pcall.in.risk.equity)
                  <= pcall.in.cfg.risk.max_exposure_pct
             /\ pcall.in.risk.orders_last_min
                  <= pcall.in.cfg.risk.max_orders_per_min
             /\ pcall.res.notional = pcall.res.qty * pcall.in.market.price
        /\ pcall.in.risk.orders_last_min > pcall.in.cfg.risk.max_orders_per_min
             => pcall.res.exc = "RiskLimitExceededError"

\* The running jobs that are in a backoff sleep, or just out of it: the
\* last worker call failed and the next iteration has not begun.
InBackoff == { i \in Running : jobs[i].pc = "check" /\ jobs[i].k > 0 }

JobAfterNotification(e) ==
    _run_one_call(
        _run_one_check(_run_one_start(Job("pending"), "BTC/EUR", DefaultConfig.retry),
                       DefaultConfig.quotas, FALSE, NoLoad),
        "BTC/EUR", DefaultConfig.retry, e)

\* C29: a failure of the alert sink does not fail what triggered it.  A
\* tick whose alerter.send raised returns the reduced list: the active
\* pairs without the low-priority pairs it disabled; and the notification
\* step of a worker lets no exception escape, so that the job returns ok
\* after one attempt.
C29_AlertFailureNeverFailsTheOperation ==
    /\ (og.ticks > 0 /\ og.last.alerts # <<>>)
       => /\ og.last.exc = NoError
          /\ og.last.ret = Without(og.pairs.active, og.last.alerts[1].disabled)
          /\ Len(og.last.alerts[1].disabled) = og.last.alerts[1].dropped
    /\ notif.called
       => /\ notif.res.exc = NoError
          /\ JobAfterNotification(notif.res.exc).pc = "returned"
          /\ JobAfterNotification(notif.res.exc).ret.result.ok
          /\ JobAfterNotification(notif.res.exc).ret.result.attempts = 1

\* alerter.send raised during a tick that dropped a pair, and a live
\* notification without transport was attempted.
C29_Witness ==
    /\ og.ticks > 0 /\ og.last.alerts # <<>>
    /\ og.e # NoError
    /\ og.last.warnings = <<og.e>>
    /\ Len(og.last.ret) < Len(og.pairs.active)
    /\ notif.called /\ notif.res.sent
    /\ notif.environ.DIA_TELEGRAM_DRY_RUN = "0"

\* C31: in _request the delay slept before retry number k (0 for the first
\* retry) is the base backoff (0.5 s, one unit) times 2^k; one sleep
\* separates two consecutive attempts, and none follows the last attempt or
\* a success.
C31_RetryBackoffDoubles ==
    rcall.called =>
        /\ Len(rcall.res.sleeps) =
              (IF rcall.res.requests = 0 THEN 0 ELSE rcall.res.requests - 1)
        /\ \A k \in 1..Len(rcall.res.sleeps) : rcall.res.sleeps[k] = 2 ^ (k - 1)

\* Responses [502, 200] with max_attempts = 3: success on the second attempt
\* after one sleep and two requests.
C31_Witness ==
    /\ rcall.called
    /\ PassedCredentials(rcall)
    /\ rcall.max = 3
    /\ rcall.script[1].status = 502
    /\ rcall.script[2] = Response(200, "dict_ok")
    /\ rcall.res.exc = "none"
    /\ rcall.res.requests = 2
    /\ rcall.res.sleeps = <<1>>

\* The local `qty` of compute_position_size before the min_notional test:
\* round(max(raw_qty, min_qty), qty_decimals).
ClampedQty(params) ==
    round(MaxQty(RawQty(params), params.min_qty), params.qty_decimals)

\* The inputs on which compute_position_size gets past its guard and its
\* division.
SizedCall ==
    /\ scall.called
    /\ scall.params.equity > 0 /\ scall.params.price > 0 /\ scall.params.atr > 0
    /\ scall.res.exc = "none"

\* C32: when the quantity after the min_qty clamp has a notional below
\* min_notional, compute_position_size returns min_notional / price and not
\* 0; equity 10000, price 100, ATR 5, k_atr 2, risk_per_trade_pct 0.5 and
\* min_notional 10 give 0.1 (notional 10).
C32_NotionalRaisedToMinimum ==
    SizedCall =>
        /\ ClampedQty(scall.params) * scall.params.price
              < scall.params.min_notional * Pow10(QtyDigits)
           => scall.res.qty * scall.params.price
                 = scall.params.min_notional * Pow10(QtyDigits)
        /\ (/\ scall.params.equity = 10000 /\ scall.params.price = 100
            /\ scall.params.atr = 5 /\ scall.params.k_atr = 2
            /\ scall.params.risk_per_trade_pct = 5
            /\ scall.params.min_notional = 10
            /\ scall.params.min_qty <= 1)
           => scall.res.qty = Pow10(QtyDigits) \div 10

RECURSIVE Gcd(_, _)
Gcd(a, b) == IF b = 0 THEN a ELSE Gcd(b, a % b)

\* The fraction x = <<numerator, denominator>> in lowest terms.
Reduce(x) == <<x[1] \div Gcd(x[1], x[2]), x[2] \div Gcd(x[1], x[2])>>

\* C33: for positive equity, price and ATR the raw quantity of
\* compute_position_size is (risk_amount / stop_value) / price, with
\* risk_amount = equity * risk_per_trade_pct / 100 and
\* stop_value = k_atr * ATR.
C33_RawQuantityDividesByPrice ==
    SizedCall =>
        Reduce(RawQty(scall.params))
          = Reduce(<<scall.params.equity * scall.params.risk_per_trade_pct,
                     1000 * scall.params.k_atr * scall.params.atr
                          * scall.params.price>>)

\* C34: compute_position_size rounds the quantity down, never up, to
\* qty_decimals places and clamps a rounded value below min_qty back up to
\* min_qty: a non-zero result is a multiple of 10^-qty_decimals or equal to
\* min_qty, is not above the unrounded quantity unless it is min_qty, and
\* is never below min_qty.
C34_RoundsDownAndKeepsMinQty ==
    (SizedCall /\ (scall.res.qty # 0 \/ scall.res.small)) =>
        LET unrounded == Reduce(MaxQty(RawQty(scall.params), scall.params.min_qty))
        IN  /\ ~scall.res.small
            /\ scall.res.qty >= scall.params.min_qty
            /\ \/ scall.res.qty % Pow10(QtyDigits - scall.params.qty_decimals) = 0
               \/ scall.res.qty = scall.params.min_qty
            /\ \/ scall.res.qty * unrounded[2] <= unrounded[1] * Pow10(QtyDigits)
               \/ scall.res.qty = scall.params.min_qty

\* C35: within one private _request call the nonce and the API-Sign
\* signature are computed once, before the retry loop: every attempt sends
\* the headers (signature included) and the body (nonce included) of the
\* first attempt, whatever the time at which it is sent.
C35_RetriesResendTheSameNonce ==
    rcall.private =>
        \A i \in 1..Len(rcall.sent) :
            /\ rcall.sent[i].headers = rcall.sent[1].headers
            /\ rcall.sent[i].content = rcall.sent[1].content
            /\ rcall.sent[i].headers.API_Sign.nonce = FmtInt(rcall.data.nonce)
            /\ rcall.sent[i].content[Len(rcall.sent[i].content)]
                 = <<"nonce", FmtInt(rcall.data.nonce)>>

\* A private call whose nonce came from the clock made a second attempt
\* more than a millisecond after the first.
C35_Witness ==
    /\ rcall.private
    /\ Len(rcall.sent) >= 2
    /\ rcall.sent[2].at > rcall.sent[1].at
    /\ rcall.data.nonce = rcall.sent[1].at
    /\ rcall.sent[1].at > 0

\* C37: submit validates the risk first, then dispatches on the mode, then
\* (live only) asks for confirmation, then builds the payload and calls
\* client.add_order: a call whose risk check fails never prompts and hands
\* over no payload, a refused confirmation hands over no payload, a payload
\* is handed over only in live mode and after the prompt when one is
\* required, and every payload handed to client.add_order carries
\* validate = "true".
C37_SubmitStepsInFixedOrder ==
    last.called =>
        LET chk == pre_trade_checks(last.intent, ex.limits, Equity, ex.min_notional)
            r == last.res
        IN  /\ chk.exc = "RiskLimitExceededError"
               => /\ ~r.prompted /\ r.payloads = <<>> /\ r.requests = 0
                  /\ r.exc = "none" /\ r.order.status = "rejected"
            /\ ex.mode # "live" => ~r.prompted /\ r.payloads = <<>>
            /\ r.exc = "SystemExit" => r.prompted /\ r.payloads = <<>>
            /\ (r.payloads # <<>> /\ ex.require_interactive_confirm) => r.prompted
            /\ r.payloads # <<>> => ex.mode = "live" /\ chk.exc # "RiskLimitExceededError"
            /\ \A i \in 1..Len(r.payloads) : r.payloads[i].validate = "true"

\* A live executor that requires confirmation prompted for one order and
\* handed it to the client, then rejected the next on its risk metrics
\* without a prompt.
C37_Witness ==
    /\ ex.mode = "live" /\ ex.require_interactive_confirm
    /\ submits = 2 /\ prompts = 1 /\ addOrderCalls = 1
    /\ last.res.order.status = "rejected"
    /\ ~last.res.prompted

\* The jobs that ended by raising SchedulerOverloadError.
Overloaded ==
    { i \in 1..Len(symbols) :
        /\ jobs[i].pc = "raised"
        /\ jobs[i].ret.exc.type = "SchedulerOverloadError" }

\* C36: in sequential mode (max_workers <= 1), once the job of symbols[i]
\* has raised SchedulerOverloadError, run_batch has raised that exception:
\* it returns no result list, though the jobs before i produced their
\* JobResults, and no job after i has started or ever starts.
C36_SequentialOverloadStopsTheBatch ==
    cfg.max_workers <= 1 =>
        \A i \in Overloaded :
            /\ batch.pc = "raised"
            /\ batch.exc = jobs[i].ret.exc
            /\ \A j \in 1..(i - 1) : jobs[j].pc = "returned"
            /\ Len(batch.results) = i - 1
            /\ \A j \in (i + 1)..Len(symbols) :
                  /\ jobs[j].pc = "unsubmitted"
                  /\ ~ENABLED StartJob(j)

\* Of three symbols run in sequence the first gave its result, the second
\* raised SchedulerOverloadError and the third was never started.
C36_Witness ==
    /\ cfg.max_workers <= 1
    /\ Len(symbols) = 3
    /\ Overloaded = {2}
    /\ jobs[1].pc = "returned" /\ jobs[1].ret.result.ok
    /\ jobs[3].pc = "unsubmitted"
    /\ batch.pc = "raised"

\* C39: run_batch terminates.  Each job makes at most max_retries + 1
\* attempts (quota checks and worker calls) and max_retries sleeps; under
\* fair scheduling there comes a moment from which run_batch has returned
\* or raised and every job that was submitted or started has ended with a
\* JobResult or an exception (the others are the jobs a sequential batch
\* never reached).
C39_RunBatchTerminates ==
    /\ [](\A i \in 1..Len(symbols) :
            /\ jobs[i].attempts <= cfg.retry.max_retries + 1
            /\ jobs[i].checks <= cfg.retry.max_retries + 1
            /\ Len(jobs[i].calls) <= cfg.retry.max_retries + 1
            /\ Len(jobs[i].sleeps) <= cfg.retry.max_retries)
    /\ <>[](/\ batch.pc \in TerminalPc
            /\ \A i \in 1..Len(symbols) :
                  jobs[i].pc \in TerminalPc \cup {"unsubmitted"})

\* A pool has returned the results of two jobs, one of which used its whole
\* retry budget: max_retries + 1 attempts and max_retries sleeps.
C39_Witness ==
    /\ cfg.max_workers >= 2
    /\ Len(symbols) = 2
    /\ cfg.retry.max_retries = 1
    /\ batch.pc = "returned"
    /\ Len(batch.results) = 2
    /\ jobs[2].attempts = 2 /\ Len(jobs[2].calls) = 2 /\ Len(jobs[2].sleeps) = 1
    /\ jobs[1].ret.result.ok

\* C38: after an evaluation the violation streak counts measurement cycles:
\* it never exceeds the number of consecutive cycles whose measure violated
\* a threshold (so evaluating again without a new sample does not advance
\* it), one non-violating sample resets it to 0, and overloaded is reported
\* only when sustain_windows consecutive cycles violated.  An overloaded
\* decision has drop_pairs between 0 and len(low_priority), and tick
\* returns active_pairs, in order, without some low-priority pairs.
C38_OverloadNeedsSustainedViolation ==
    LET hm == og.self.hm
    IN  /\ og.evaluated =>
              /\ hm._violation_streak <= og.cycles
              /\ ~Violates(hm._history[Len(hm._history)], hm.th)
                    => hm._violation_streak = 0
              /\ og.decision.overloaded => og.cycles >= hm.th.sustain_windows
              /\ og.decision.overloaded =>
                    /\ og.decision.drop_pairs >= 0
                    /\ og.decision.drop_pairs <= Len(og.pairs.low)
        /\ (og.last # NoTick /\ og.last.exc = NoError) =>
              LET kept(p) == p \in Elements(og.last.ret)
              IN  /\ SelectSeq(og.pairs.active, kept) = og.last.ret
                  /\ Elements(og.pairs.active) \ Elements(og.last.ret)
                        \subseteq Elements(og.pairs.low)

====
